---------------------------- MODULE Spec2Model ----------------------------
(***************************************************************************)
(* libmangal: the chapter download orchestrator (Client.DownloadChapter,   *)
(* Client.DownloadPagesInBatch, mergeDirectories) and the Anilist metadata *)
(* resolver (Anilist.FindClosestManga and its search loop).                *)
(*                                                                         *)
(* The repository holds several snapshots of the client.  Each is modelled *)
(* under its own name:                                                     *)
(*   "staged"   unnamed/part_004  (in-memory staging FS + mergeDirectories)*)
(*   "tempdir"  unnamed/part_003 + client_util.go:306-660 (temp dir+Rename)*)
(*   "generic"  client.go (the generic Client[M,V,C,P])                    *)
(*                                                                         *)
(* Three specifications share the variables:                               *)
(*   SpecBatch    one DownloadPagesInBatch call, task by task              *)
(*   Spec         DownloadChapter, step by step, and an immediate re-call  *)
(*   SpecAnilist  FindClosestManga calls                                   *)
(***************************************************************************)
EXTENDS Integers, Sequences, FiniteSets, TLC

VARIABLES
    \* ---- DownloadPagesInBatch (one call) ----
    pages,            \* the []Page argument
    ctxDone,          \* the caller's ctx is cancelled
    groupCtxDone,     \* the context derived by errgroup.WithContext (discarded by the code)
    spawned,          \* how many g.Go calls the for loop has made
    task,             \* task[i]: "none" | "running" | "ok" | "err"
    downloadedPages,  \* the result slice, make([]PageWithImage, len(pages))
    groupErr,         \* errgroup's err (set once, by the first failing task)
    batchPc,          \* "idle" | "spawning" | "waiting" | "returned"
    batchResult,      \* what DownloadPagesInBatch returned: [pages, err]
    order             \* history: the indices in the order their tasks finished

batchVars == <<pages, ctxDone, groupCtxDone, spawned, task, downloadedPages,
               groupErr, batchPc, batchResult, order>>

VARIABLES
    \* ---- DownloadChapter ----
    impl,          \* which snapshot of the client runs: "staged" | "tempdir" | "generic"
    opts,          \* the DownloadOptions of the call(s)
    fs,            \* the destination filesystem, c.options.FS
    tmp,           \* the staging filesystem, tmpClient.options.FS (afero.NewMemMapFs())
    pc,            \* where DownloadChapter is
    callNo,        \* 1 for the first call, 2 for the immediate second call
    chapterExists, \* the local chapterExists
    nPages,        \* len(pages) of the chapter, as ChapterPages returned it
    mergeQueue,    \* mergeDirectories: the staged files still to copy
    res,           \* what DownloadChapter returned: [path, err]
    \* history of the running call
    fs0,           \* the destination filesystem when the call started
    fetched,       \* how many provider.GetPageImage calls the call made
    looked,        \* the auxiliary artifacts a lookup or download was made for
    auxFailed,     \* the auxiliary artifacts whose production failed
    pageFailed,    \* the pages whose download failed
    encFailed,     \* the encoder returned an error
    firstCall      \* the first call's [path, err, fetched], once it returned

dlVars == <<impl, opts, fs, tmp, pc, callNo, chapterExists, nPages, mergeQueue,
            res, fs0, fetched, looked, auxFailed, pageFailed, encFailed, firstCall>>

VARIABLES
    \* ---- FindClosestManga (one call) ----
    anImpl,        \* "anilist": Anilist.FindClosestManga; "client": Client.AnilistFindClosestManga
    title,         \* the title argument, as the caller passed it
    currentTitle,  \* findClosestManga's currentTitle
    try,           \* findClosestManga's try
    queries,       \* history: the strings passed to SearchMangas, in order
    results,       \* history: what came of each of them: "err" | "none" | "far" | "close"
    titleCached,   \* the title store binds unifyString(title) to a manga of the id store
    fcInner,       \* what findClosestManga returned: "none" | "found" | "notfound" | "err"
    fcPc,          \* "idle" | "loop" | "finish" | "done"
    fcRes          \* what FindClosestManga returned: "none" | "manga" | "notfound" | "err" | "panic"

anVars == <<anImpl, title, currentTitle, try, queries, results, titleCached,
            fcInner, fcPc, fcRes>>

VARIABLES
    \* ---- the resolver and its three stores (a sequence of calls) ----
    rsImpl,        \* "anilist": the Anilist type's methods; "client": the Client's
    qStore,        \* QueryToIDsStore: entries [k: query, v: ids]
    tStore,        \* TitleToIDStore: entries [k: title, v: id]
    idStore,       \* IDToMangaStore: entries [k: id, v: manga]
    catalog,       \* the ids Anilist has a manga for
    ops,           \* how many calls were made
    env,           \* what happened around the resolver: "Evict", "Unlist"
    faults,        \* how many calls met a failing store or a failing request
    log            \* history: the last two steps, oldest first

rsVars == <<rsImpl, qStore, tStore, idStore, catalog, ops, env, faults, log>>

VARIABLES
    \* ---- one request to Anilist (sendRequest) ----
    rqPc,          \* "idle" | "send" | "wait" | "done"
    rqCtxDone,     \* the caller's ctx is cancelled
    rqSent,        \* how many times the request went out
    rqLast,        \* the last response: [status, header]; header is X-RateLimit-Remaining
    rqSeconds,     \* seconds of the current wait, as parsed
    rqLeft,        \* seconds of the current wait still to pass
    rqWoken,       \* the case the select woke up with: "none" | "timer" | "ctx"
    rqRes,         \* what the call returned
    \* history
    rqSeen429,     \* how many 429 responses came
    rqCancel       \* [sent, left] when ctx was cancelled during a wait, else <<>>

rqVars == <<rqPc, rqCtxDone, rqSent, rqLast, rqSeconds, rqLeft, rqWoken,
            rqRes, rqSeen429, rqCancel>>

VARIABLES
    \* ---- getSeriesJson / getComicInfoXml (one call) ----
    mdManga,       \* the manga: [Title, AnilistSearch, supplies, fails]
    mdPc,          \* "idle" | "ready" | "done"
    mdCall,        \* "none" | "series" | "comicinfo"
    mdFrom,        \* where the returned record came from: "none" | "provider" | "anilist"
    mdKeys,        \* history: the titles FindClosestManga was called with
    mdErr          \* the call returned an error

mdVars == <<mdManga, mdPc, mdCall, mdFrom, mdKeys, mdErr>>

VARIABLES
    \* ---- Client.SaveCBZ (one call) ----
    czPages,       \* the pages to save: the sequence of their extensions
    czInfo,        \* the caller's ComicInfoXml record: [Count]
    czPc,          \* "idle" | "pages" | "done" | "failed"
    czZip          \* the archive written so far: entries [Name, Body]

czVars == <<czPages, czInfo, czPc, czZip>>

VARIABLES
    \* ---- Client.readChapter (one call) ----
    rdIn,          \* [opens, authorized, incognito, found, tenths]
    rdPc,          \* "idle" | "ready" | "done"
    rdLooked,      \* FindClosestManga was called
    rdReported,    \* history: the progress values SetProgress was called with
    rdErr          \* the call returned an error

rdVars == <<rdIn, rdPc, rdLooked, rdReported, rdErr>>

VARIABLES
    \* ---- NewClient (one call) ----
    ncInfo,        \* loader.Info(): [Name, Version, Description]
    ncPc,          \* "idle" | "ready" | "load" | "done"
    ncCalls,       \* history: the loader's methods called, in order
    ncNet,         \* the provider being loaded has used the network
    ncRes          \* "none" | "invalid" | "loaderr" | "client"

ncVars == <<ncInfo, ncPc, ncCalls, ncNet, ncRes>>

VARIABLES
    \* ---- FindClosestManga on a fresh resolver (one call) ----
    clIn,          \* [kind, title, cat]: the snapshot, the title, Anilist's ids
    clPc,          \* "idle" | "ready" | "done"
    clRet          \* what the call returned, with the stores it left

clVars == <<clIn, clPc, clRet>>

VARIABLES
    \* ---- a provider handle: extractInfo, LoadProvider, Info ----
    phScript,      \* the script: a sequence of lines, each a sequence of tokens
    phPc,          \* "idle" | "ready" | "handle" | "loaded" | "failed"
    phInfo,        \* the handle's ProviderInfo: [Name, Description, Version]
    phErr          \* "nil" | "yaml" | "info" | "load"

phVars == <<phScript, phPc, phInfo, phErr>>

VARIABLES
    \* ---- Anilist.Authorize, Logout, IsAuthorized ----
    accessToken,   \* the Anilist's accessToken field
    tokenStore,    \* AccessTokenStore: <<>> or <<token>> under the one key
    auLast,        \* the last call: [op, err]
    auOps          \* calls made so far

auVars == <<accessToken, tokenStore, auLast, auOps>>

vars == <<batchVars, dlVars, anVars, rsVars, rqVars, mdVars, czVars, rdVars,
          ncVars, clVars, phVars, auVars>>

\* What the steps of one part of the model leave alone: the other parts.
exceptBatch == <<dlVars, anVars, rsVars, rqVars, mdVars, czVars, rdVars,
                 ncVars, clVars, phVars, auVars>>
exceptDl == <<batchVars, anVars, rsVars, rqVars, mdVars, czVars, rdVars,
              ncVars, clVars, phVars, auVars>>
exceptAn == <<batchVars, dlVars, rsVars, rqVars, mdVars, czVars, rdVars,
              ncVars, clVars, phVars, auVars>>
exceptRs == <<batchVars, dlVars, anVars, rqVars, mdVars, czVars, rdVars,
              ncVars, clVars, phVars, auVars>>
exceptRq == <<batchVars, dlVars, anVars, rsVars, mdVars, czVars, rdVars,
              ncVars, clVars, phVars, auVars>>
exceptMd == <<batchVars, dlVars, anVars, rsVars, rqVars, czVars, rdVars,
              ncVars, clVars, phVars, auVars>>
exceptCz == <<batchVars, dlVars, anVars, rsVars, rqVars, mdVars, rdVars,
              ncVars, clVars, phVars, auVars>>
exceptRd == <<batchVars, dlVars, anVars, rsVars, rqVars, mdVars, czVars,
              ncVars, clVars, phVars, auVars>>
exceptNc == <<batchVars, dlVars, anVars, rsVars, rqVars, mdVars, czVars,
              rdVars, clVars, phVars, auVars>>
exceptCl == <<batchVars, dlVars, anVars, rsVars, rqVars, mdVars, czVars,
              rdVars, ncVars, phVars, auVars>>
exceptPh == <<batchVars, dlVars, anVars, rsVars, rqVars, mdVars, czVars,
              rdVars, ncVars, clVars, auVars>>
exceptAu == <<batchVars, dlVars, anVars, rsVars, rqVars, mdVars, czVars,
              rdVars, ncVars, clVars, phVars>>

-----------------------------------------------------------------------------
(* Bounds *)

\* The largest number of pages DownloadPagesInBatch is called with.
MaxPages == 3

\* The largest number of pages of the chapter DownloadChapter downloads.
MaxChapterPages == 2

\* The largest number of failures one DownloadChapter call goes on after
\* (a swallowed encoder error, a non-Strict auxiliary failure).
MaxFaults == 1

\* The longest title FindClosestManga is called with.
MaxTitleLen == 5
MaxIds == 2
MaxOps == 2
MaxSends == 3
MaxCbzPages == 3
MaxAuthOps == 4

-----------------------------------------------------------------------------
(* Values *)

\* A Go nil error.
NoErr == [kind |-> "nil", idx |-> 0]

\* The error provider.GetPageImage returns for the page at index i.
PageErr(i) == [kind |-> "page", idx |-> i]

\* ctx.Err() of a cancelled context.
CtxErr == [kind |-> "canceled", idx |-> 0]

\* The zero value of a slot of the result slice (a nil PageWithImage).
NilPage == [id |-> 0, image |-> 0]

\* The image bytes the provider serves for a page; a page that already
\* carries an image (a PageWithImage) keeps its own bytes.
ProviderImage(p) == p.id
OwnImage(p) == 0 - p.id

PageIds == 1..MaxPages

\* The page files of the chapter DownloadChapter writes.
FileIds == 1..MaxChapterPages

\* The chapters' page lists: sequences of distinct pages, in any order.
RECURSIVE Injective(_)
Injective(s) ==
    IF Len(s) <= 1 THEN TRUE
    ELSE /\ \A j \in 2..Len(s) : s[j] # s[1]
         /\ Injective(Tail(s))

PageLists ==
    LET idSeqs == UNION {[1..n -> PageIds] : n \in 0..MaxPages}
    IN  {s \in idSeqs : Injective(s)}

\* At most the first page of a list already carries its image.
MkPages(ids, pre) ==
    [i \in 1..Len(ids) |-> [id |-> ids[i], hasImage |-> (pre /\ i = 1)]]

-----------------------------------------------------------------------------
(* Download options, paths and filesystems *)

Impls == {"staged", "tempdir", "generic"}
Formats == {"pdf", "cbz", "images"}
AuxKinds == {"series", "cover", "banner"}

\* The errors of DownloadChapter's steps.
StepErr(step) == [kind |-> step, idx |-> 0]
\* MetadataError{err}: part_003 wraps a Strict auxiliary failure.
MetadataError(k) == [kind |-> "metadata:" \o k, idx |-> 0]
AuxErr(k) == [kind |-> "aux:" \o k, idx |-> 0]

\* Format.Extension() appended to the chapter's name.
ChapterFilename(format) ==
    CASE format = "pdf" -> "[0001] ch.pdf"
      [] format = "cbz" -> "[0001] ch.cbz"
      [] OTHER -> "[0001] ch"

\* options.Directory after the CreateMangaDir / CreateVolumeDir joins, as the
\* list of its components: filepath.Join drops empty components.
Directory(o) ==
    IF o.nested THEN <<"lib", "Manga", "Vol. 1">> ELSE <<>>

\* filepath.Join(options.Directory, filenames.Chapter)
ChapterPath(o) == Directory(o) \o <<ChapterFilename(o.format)>>
\* filenames.Chapter alone
ChapterName(o) == <<ChapterFilename(o.format)>>
\* The "" DownloadChapter returns beside an error.
NoPath == <<>>

\* File contents, by who wrote them.
Stamp(n) == IF n = 1 THEN "new1" ELSE "new2"
Stamps == {"absent", "old", "partial", "new1", "new2"}

\* A chapter artifact: a single file (pdf, cbz) or a directory of numbered
\* page files (images).
NoArtifact == [kind |-> "absent", stamp |-> "absent",
               files |-> [i \in FileIds |-> "absent"]]
FileArtifact(st) == [kind |-> "file", stamp |-> st,
                     files |-> [i \in FileIds |-> "absent"]]
DirArtifact(n, st) == [kind |-> "dir", stamp |-> "absent",
                       files |-> [i \in FileIds |-> IF i <= n THEN st ELSE "absent"]]
OldArtifact(format) ==
    IF format = "images" THEN DirArtifact(MaxChapterPages, "old") ELSE FileArtifact("old")

EmptyFs == [dir |-> FALSE, tempDir |-> FALSE, temp |-> NoArtifact,
            chapter |-> NoArtifact,
            series |-> "absent", cover |-> "absent", banner |-> "absent"]

\* afero.Exists on the chapter path and on an auxiliary file.
ArtifactExists(f) == f.chapter.kind # "absent"
AuxExists(f, k) == f[k] # "absent"

NoCall == [path |-> NoPath, err |-> NoErr, fetched |-> 0]

DlIdle ==
    /\ impl = "staged"
    /\ opts = [format |-> "cbz", strict |-> FALSE, skip |-> FALSE, read |-> FALSE,
               series |-> FALSE, cover |-> FALSE, banner |-> FALSE, nested |-> FALSE]
    /\ fs = EmptyFs /\ tmp = EmptyFs /\ pc = "idle" /\ callNo = 1
    /\ chapterExists = FALSE /\ nPages = 0 /\ mergeQueue = <<>>
    /\ res = [path |-> NoPath, err |-> NoErr]
    /\ fs0 = EmptyFs /\ fetched = 0 /\ looked = {} /\ auxFailed = {}
    /\ pageFailed = {} /\ encFailed = FALSE /\ firstCall = NoCall

-----------------------------------------------------------------------------
(* Client.DownloadChapter: the stages of one call *)

\* The steps of downloadChapterWithMetadata, which part_004 calls on the
\* staging client: the existence check through the callback, the download
\* and encoding of downloadChapter, then the auxiliary artifacts.
WithMetadataStages ==
    <<"exists", "pages", "batch", "encode", "series", "cover", "banner">>

\* The order of the steps of DownloadChapter in each snapshot.
StagesOf(i) ==
    IF i = "staged"
    THEN WithMetadataStages \o <<"merge", "read", "done">>
    ELSE <<"mkdir", "exists", "tempdir", "pages", "batch", "encode", "remove",
           "series", "cover", "banner", "rename", "read", "done">>

\* The conditions under which a step runs: if chapterExists {removeChapter},
\* if options.WriteSeriesJson {...}, if options.DownloadMangaCover {...},
\* if options.DownloadMangaBanner {...}, if options.ReadAfter {...}.
\* client.go has neither the banner nor the ReadAfter step.
Applies(stage, ex) ==
    CASE stage = "remove" -> ex
      [] stage = "series" -> opts.series
      [] stage = "cover" -> opts.cover
      [] stage = "banner" -> opts.banner /\ impl # "generic"
      [] stage = "read" -> opts.read /\ impl # "generic"
      [] OTHER -> TRUE

RECURSIVE FirstFrom(_, _, _)
FirstFrom(stages, k, ex) ==
    IF Applies(stages[k], ex) THEN stages[k] ELSE FirstFrom(stages, k + 1, ex)

NextStage(cur, ex) ==
    LET stages == StagesOf(impl)
        k == CHOOSE j \in 1..Len(stages) : stages[j] = cur
    IN  FirstFrom(stages, k + 1, ex)

\* return path, err
Return(path, err, nfetched) ==
    /\ pc' = "done"
    /\ res' = [path |-> path, err |-> err]
    /\ firstCall' = IF callNo = 1
                    THEN [path |-> path, err |-> err, fetched |-> nfetched]
                    ELSE firstCall

\* Fall through to the next step that applies; the last one returns
\* chapterPath, nil.
Advance(cur, ex, nfetched) ==
    LET n == NextStage(cur, ex)
    IN  IF n = "done"
        THEN Return(ChapterPath(opts), NoErr, nfetched)
        ELSE pc' = n /\ UNCHANGED <<res, firstCall>>

\* Where the snapshot writes the chapter it downloads: the staging
\* filesystem (part_004), or chapterTempPath inside c.Options.FS (part_003).
PutChapter(art) ==
    IF impl = "staged"
    THEN tmp' = [tmp EXCEPT !.chapter = art] /\ fs' = fs
    ELSE fs' = [fs EXCEPT !.temp = art] /\ tmp' = tmp

\* Where the snapshot writes an auxiliary file: the staging filesystem
\* (part_004), or c.Options.FS itself (part_003, client.go).
PutAux(k, st) ==
    IF impl = "staged"
    THEN tmp' = [tmp EXCEPT ![k] = st] /\ fs' = fs
    ELSE fs' = [fs EXCEPT ![k] = st] /\ tmp' = tmp

\* The existence check of an auxiliary file: afero.Exists(c.Options.FS, path)
\* in client_util.go; the callback of part_004:99-101 asks c.options.FS too.
AuxCheckedInStaging(k) == AuxExists(tmp, k)
AuxAlreadyThere(k) == AuxExists(fs, k)

\* The destination filesystems a call can start from: the chapter is there
\* or not, and so is each auxiliary file the call asks for (no step reads
\* or writes an auxiliary file the options do not request).
Requested(o) == {k \in AuxKinds : o[k]}

InitialFs(format, asked) ==
    {[EmptyFs EXCEPT !.dir = (exCh \/ exAux # {}),
                     !.chapter = IF exCh THEN OldArtifact(format) ELSE NoArtifact,
                     !.series = IF "series" \in exAux THEN "old" ELSE "absent",
                     !.cover = IF "cover" \in exAux THEN "old" ELSE "absent",
                     !.banner = IF "banner" \in exAux THEN "old" ELSE "absent"] :
        exCh \in BOOLEAN, exAux \in SUBSET asked}

InitDl ==
    /\ impl \in Impls
    /\ opts \in [format : Formats, strict : BOOLEAN, skip : BOOLEAN,
                 read : BOOLEAN, series : BOOLEAN, cover : BOOLEAN,
                 banner : BOOLEAN, nested : BOOLEAN]
    /\ impl = "generic" => ~opts.read /\ ~opts.banner
    \* only client.go returns a path that depends on how Directory is made
    /\ impl # "generic" => opts.nested
    /\ fs \in InitialFs(opts.format, Requested(opts))
    /\ tmp = EmptyFs /\ pc = "idle" /\ callNo = 1
    /\ chapterExists = FALSE /\ nPages = 0 /\ mergeQueue = <<>>
    /\ res = [path |-> NoPath, err |-> NoErr]
    /\ fs0 = fs /\ fetched = 0 /\ looked = {} /\ auxFailed = {}
    /\ pageFailed = {} /\ encFailed = FALSE /\ firstCall = NoCall

\* DownloadChapter is called; and once more with the same arguments after a
\* call with SkipIfExists returned a nil error.
\* part_004: tmpClient.options.FS = afero.NewMemMapFs().
Call ==
    /\ \/ pc = "idle" /\ callNo' = 1
       \/ pc = "done" /\ callNo = 1 /\ opts.skip /\ res.err = NoErr /\ callNo' = 2
    /\ pc' = StagesOf(impl)[1]
    /\ tmp' = [EmptyFs EXCEPT !.dir = (impl = "staged")]
    /\ fs0' = fs
    /\ chapterExists' = FALSE /\ nPages' = 0 /\ mergeQueue' = <<>>
    /\ res' = [path |-> NoPath, err |-> NoErr]
    /\ fetched' = 0 /\ looked' = {} /\ auxFailed' = {} /\ pageFailed' = {}
    /\ encFailed' = FALSE
    /\ UNCHANGED <<impl, opts, fs, firstCall>>

\* err := c.Options.FS.MkdirAll(options.Directory, modeDir)
MkdirAll ==
    /\ pc = "mkdir"
    /\ \E ok \in BOOLEAN :
          IF ok
          THEN /\ fs' = [fs EXCEPT !.dir = TRUE]
               /\ Advance("mkdir", chapterExists, fetched)
          ELSE /\ fs' = fs
               /\ Return(NoPath, StepErr("mkdir"), fetched)
    /\ UNCHANGED <<impl, opts, tmp, callNo, chapterExists, nPages, mergeQueue,
                   fs0, fetched, looked, auxFailed, pageFailed, encFailed>>

\* downloadChapterWithMetadata when the chapter exists and SkipIfExists is
\* set: no download, the auxiliary artifacts are still gone through.
SkipExistingStaged == Advance("encode", TRUE, fetched)

\* What the call does when the chapter exists and SkipIfExists is set.
\* part_003:107-115 returns chapterPath (after readChapter with ReadAfter);
\* client.go:111-115 returns filenames.Chapter.
SkipExisting ==
    CASE impl = "staged" -> SkipExistingStaged
      [] impl = "tempdir" -> Advance("rename", TRUE, fetched)
      [] OTHER -> Return(ChapterName(opts), NoErr, fetched)

\* chapterExists, err := afero.Exists(c.Options.FS, chapterPath)
CheckExists ==
    /\ pc = "exists"
    /\ \E ok \in BOOLEAN :
          IF ~ok
          THEN /\ chapterExists' = chapterExists
               /\ Return(NoPath, StepErr("exists"), fetched)
          ELSE /\ chapterExists' = ArtifactExists(fs)
               /\ IF ArtifactExists(fs) /\ opts.skip
                  THEN SkipExisting
                  ELSE Advance("exists", ArtifactExists(fs), fetched)
    /\ UNCHANGED <<impl, opts, fs, tmp, callNo, nPages, mergeQueue,
                   fs0, fetched, looked, auxFailed, pageFailed, encFailed>>

\* tempDir, err := afero.TempDir(c.Options.FS, "", "")
TempDir ==
    /\ pc = "tempdir"
    /\ \E ok \in BOOLEAN :
          IF ok
          THEN /\ fs' = [fs EXCEPT !.tempDir = TRUE, !.temp = NoArtifact]
               /\ Advance("tempdir", chapterExists, fetched)
          ELSE /\ fs' = fs
               /\ Return(NoPath, StepErr("tempdir"), fetched)
    /\ UNCHANGED <<impl, opts, tmp, callNo, chapterExists, nPages, mergeQueue,
                   fs0, fetched, looked, auxFailed, pageFailed, encFailed>>

\* pages, err := c.provider.ChapterPages(ctx, c.Options.Log, chapter)
ChapterPages ==
    /\ pc = "pages"
    /\ \/ /\ \E n \in 0..MaxChapterPages : nPages' = n
          /\ Advance("pages", chapterExists, fetched)
       \/ /\ nPages' = nPages
          /\ Return(NoPath, StepErr("pages"), fetched)
    /\ UNCHANGED <<impl, opts, fs, tmp, callNo, chapterExists, mergeQueue,
                   fs0, fetched, looked, auxFailed, pageFailed, encFailed>>

\* The outcomes of DownloadPagesInBatch on n pages: every task runs its
\* GetPageImage; with no failing page the n pages come back, otherwise the
\* error of the page that failed first.
BatchOutcomesSwallowed(n) ==
    {[err |-> NoErr, failed |-> F] : F \in SUBSET (1..n)}
BatchOutcomes(n) ==
    {[err |-> NoErr, failed |-> {}]} \cup
    UNION {{[err |-> PageErr(k), failed |-> F] : k \in F} : F \in SUBSET (1..n)}

\* downloadedPages, err := c.DownloadPagesInBatch(ctx, pages)
DownloadPages ==
    /\ pc = "batch"
    /\ \E o \in BatchOutcomes(nPages) :
          /\ fetched' = nPages
          /\ pageFailed' = o.failed
          /\ IF o.err = NoErr
             THEN Advance("batch", chapterExists, nPages)
             ELSE Return(NoPath, o.err, nPages)
    /\ UNCHANGED <<impl, opts, fs, tmp, callNo, chapterExists, nPages, mergeQueue,
                   fs0, looked, auxFailed, encFailed>>

\* What an encoder leaves at its path: the finished artifact, or on an
\* error nothing (Create failed) or a partly written file or directory.
Encoded(format, n, st) ==
    IF format = "images" THEN DirArtifact(n, st) ELSE FileArtifact(st)

EncodeLeftovers(format, n, st) ==
    IF format = "images"
    THEN {NoArtifact} \cup {DirArtifact(j, st) : j \in 0..(n - 1)}
    ELSE {NoArtifact, FileArtifact("partial")}

\* SavePDF: api.ImportImages needs at least one image.
EncoderMayFail(format, n) == TRUE
EncoderMaySucceed(format, n) == format = "pdf" => n > 0

\* The err that downloadChapter tests after the switch.  In the FormatCBZ
\* case "comicInfo, err := c.getComicInfoXml(...)" declares a new err in the
\* case clause, and SaveCBZ's error is assigned to that one.
ErrAfterSwitch(format, encoderFailed) ==
    IF format = "cbz" THEN FALSE ELSE encoderFailed

\* The call may meet one more failure it does not return on.
MayFail == Cardinality(auxFailed) + (IF encFailed THEN 1 ELSE 0) < MaxFaults

\* The rest of downloadChapter: the switch on options.Format.
\* cbz first asks for the chapter's ComicInfo (getComicInfoXml).
Encode ==
    /\ pc = "encode"
    /\ \E infoOk \in BOOLEAN, encOk \in BOOLEAN :
          /\ infoOk \/ (opts.format = "cbz" /\ MayFail)
          /\ encOk \/ (MayFail /\ infoOk) \/ opts.format # "cbz"
          /\ auxFailed' = IF infoOk THEN auxFailed ELSE auxFailed \cup {"comicinfo"}
          /\ IF ~infoOk /\ opts.strict
             THEN /\ encOk
                  /\ UNCHANGED <<fs, tmp, encFailed>>
                  /\ Return(NoPath, StepErr("comicinfo"), fetched)
             ELSE /\ IF encOk THEN EncoderMaySucceed(opts.format, nPages)
                              ELSE EncoderMayFail(opts.format, nPages)
                  /\ encFailed' = ~encOk
                  /\ \E art \in IF encOk
                                THEN {Encoded(opts.format, nPages, Stamp(callNo))}
                                ELSE EncodeLeftovers(opts.format, nPages, Stamp(callNo)) :
                        PutChapter(art)
                  /\ IF ErrAfterSwitch(opts.format, ~encOk)
                     THEN Return(NoPath, StepErr("encode"), fetched)
                     ELSE Advance("encode", chapterExists, fetched)
    /\ UNCHANGED <<impl, opts, callNo, chapterExists, nPages, mergeQueue,
                   fs0, fetched, looked, pageFailed>>

\* if chapterExists { err := c.removeChapter(chapterPath) }
RemoveChapter ==
    /\ pc = "remove"
    /\ \E ok \in BOOLEAN :
          IF ok
          THEN /\ fs' = [fs EXCEPT !.chapter = NoArtifact]
               /\ Advance("remove", chapterExists, fetched)
          ELSE /\ fs' = fs
               /\ Return(NoPath, StepErr("remove"), fetched)
    /\ UNCHANGED <<impl, opts, tmp, callNo, chapterExists, nPages, mergeQueue,
                   fs0, fetched, looked, auxFailed, pageFailed, encFailed>>

\* The error DownloadChapter returns for a Strict auxiliary failure.
StrictErr(k) == IF impl = "generic" THEN AuxErr(k) ELSE MetadataError(k)

\* if err != nil && options.Strict { return "", MetadataError{err} }
AuxFailureNeverFatal(o) == FALSE
AuxFailureIsFatal(o) == o.strict

\* writeSeriesJson / downloadCover / downloadBanner, and the caller's test
\* of their error.  how: "check" the existence check fails; "skip" the file
\* exists; "lookup" getSeriesJson / getCoverURL / the HTTP GET fails;
\* "write" afero.WriteFile fails and leaves a partly written file; "ok".
AuxStep(k) ==
    /\ pc = k
    /\ \E how \in {"check", "skip", "lookup", "write", "ok"} :
          /\ how = "skip" <=> (how # "check" /\ AuxAlreadyThere(k))
          /\ how \in {"check", "lookup", "write"} => MayFail \/ AuxFailureIsFatal(opts)
          /\ looked' = IF how \in {"lookup", "write", "ok"}
                       THEN looked \cup {k} ELSE looked
          /\ CASE how = "ok" -> PutAux(k, Stamp(callNo))
               [] how = "write" -> PutAux(k, "partial")
               [] OTHER -> UNCHANGED <<fs, tmp>>
          /\ IF how \in {"check", "lookup", "write"}
             THEN /\ auxFailed' = auxFailed \cup {k}
                  /\ IF AuxFailureIsFatal(opts)
                     THEN Return(NoPath, StrictErr(k), fetched)
                     ELSE Advance(k, chapterExists, fetched)
             ELSE /\ auxFailed' = auxFailed
                  /\ Advance(k, chapterExists, fetched)
    /\ UNCHANGED <<impl, opts, callNo, chapterExists, nPages, mergeQueue,
                   fs0, fetched, pageFailed, encFailed>>

WriteSeriesJson == AuxStep("series")
DownloadCover == AuxStep("cover")
DownloadBanner == AuxStep("banner")

\* err = c.Options.FS.Rename(chapterTempPath, chapterPath)
Rename ==
    /\ pc = "rename"
    /\ \E ok \in BOOLEAN :
          IF ok
          THEN /\ fs.temp.kind # "absent"
               /\ fs' = [fs EXCEPT !.chapter = fs.temp, !.temp = NoArtifact]
               /\ Advance("rename", chapterExists, fetched)
          ELSE /\ fs' = fs
               /\ Return(NoPath, StepErr("rename"), fetched)
    /\ UNCHANGED <<impl, opts, tmp, callNo, chapterExists, nPages, mergeQueue,
                   fs0, fetched, looked, auxFailed, pageFailed, encFailed>>

-----------------------------------------------------------------------------
(* mergeDirectories(c.FS(), options.Directory, tmpClient.FS(), options.Directory) *)

FileKey(kind, i) == [kind |-> kind, idx |-> i]

\* The files of a tree in the order mergeDirectories meets them:
\* afero.ReadDir sorts by name, directories are walked in place.  The
\* chapter ("[0001] ..." with the default name template) sorts before
\* banner.jpg, cover.jpg and series.json; page files are 0001, 0002, ...
PageKeys(t) ==
    LET present == {i \in FileIds : t.chapter.files[i] # "absent"}
        RECURSIVE upTo(_)
        upTo(i) == IF i > MaxChapterPages THEN <<>>
                   ELSE (IF i \in present THEN <<FileKey("page", i)>> ELSE <<>>)
                        \o upTo(i + 1)
    IN  upTo(1)

StagedFiles(t) ==
    (IF t.chapter.kind = "file" THEN <<FileKey("chapter", 0)>> ELSE <<>>)
    \o (IF t.chapter.kind = "dir" THEN PageKeys(t) ELSE <<>>)
    \o (IF t.banner # "absent" THEN <<FileKey("banner", 0)>> ELSE <<>>)
    \o (IF t.cover # "absent" THEN <<FileKey("cover", 0)>> ELSE <<>>)
    \o (IF t.series # "absent" THEN <<FileKey("series", 0)>> ELSE <<>>)

\* The content of a file of a tree ("absent": no such file).
FileAt(t, key) ==
    CASE key.kind = "chapter" ->
            IF t.chapter.kind = "file" THEN t.chapter.stamp ELSE "absent"
      [] key.kind = "page" ->
            IF t.chapter.kind = "dir" THEN t.chapter.files[key.idx] ELSE "absent"
      [] OTHER -> t[key.kind]

\* The tree with the file set to a content; "absent" removes the file and
\* keeps its directory, as dstFS.Remove and dstFS.MkdirAll leave it.
WithFile(t, key, st) ==
    CASE key.kind = "chapter" ->
            [t EXCEPT !.dir = TRUE,
                      !.chapter = IF st = "absent" THEN NoArtifact ELSE FileArtifact(st)]
      [] key.kind = "page" ->
            [t EXCEPT !.dir = TRUE,
                      !.chapter = [kind |-> "dir", stamp |-> "absent",
                                   files |-> [t.chapter.files EXCEPT ![key.idx] = st]]]
      [] OTHER -> [t EXCEPT !.dir = TRUE, ![key.kind] = st]

\* A merge that makes the destination a mirror of the source tree.
MergedFileMirrored(dst, src, key, how) ==
    CASE how = "early" -> dst
      [] how = "mid" -> WithFile(dst, key, "absent")
      [] how = "copy" -> WithFile(dst, key, "partial")
      [] OTHER -> [src EXCEPT !.dir = TRUE, !.tempDir = dst.tempDir,
                              !.temp = dst.temp]

\* A merge that leaves a file the destination already has as it is.
MergedFileKept(dst, src, key, how) ==
    CASE how = "early" -> dst
      [] how = "mid" -> WithFile(dst, key, "absent")
      [] how = "copy" -> WithFile(dst, key, "partial")
      [] OTHER -> IF FileAt(dst, key) # "absent" THEN dst
                  ELSE WithFile(dst, key, FileAt(src, key))

\* One iteration of the loop over srcFiles, for a regular file.
\* "early": afero.Exists, dstFS.Remove or dstFS.MkdirAll fails;
\* "mid": srcFS.Open or dstFS.Create fails; "copy": io.Copy fails.
MergedFile(dst, src, key, how) ==
    CASE how = "early" -> dst
      [] how = "mid" -> WithFile(dst, key, "absent")
      [] how = "copy" -> WithFile(dst, key, "partial")
      [] OTHER -> WithFile(dst, key, FileAt(src, key))

\* srcFiles, err := afero.ReadDir(srcFS, srcDir)
MergeStart ==
    /\ pc = "merge"
    /\ \E ok \in BOOLEAN :
          IF ~ok
          THEN /\ mergeQueue' = mergeQueue
               /\ Return(NoPath, StepErr("merge"), fetched)
          ELSE /\ mergeQueue' = StagedFiles(tmp)
               /\ IF StagedFiles(tmp) = <<>>
                  THEN Advance("merge", chapterExists, fetched)
                  ELSE pc' = "merging" /\ UNCHANGED <<res, firstCall>>
    /\ UNCHANGED <<impl, opts, fs, tmp, callNo, chapterExists, nPages,
                   fs0, fetched, looked, auxFailed, pageFailed, encFailed>>

MergeFile ==
    /\ pc = "merging"
    /\ mergeQueue # <<>>
    /\ \E how \in {"early", "mid", "copy", "ok"} :
          /\ fs' = MergedFile(fs, tmp, Head(mergeQueue), how)
          /\ IF how # "ok"
             THEN /\ mergeQueue' = mergeQueue
                  /\ Return(NoPath, StepErr("merge"), fetched)
             ELSE /\ mergeQueue' = Tail(mergeQueue)
                  /\ IF Tail(mergeQueue) = <<>>
                     THEN Advance("merge", chapterExists, fetched)
                     ELSE pc' = "merging" /\ UNCHANGED <<res, firstCall>>
    /\ UNCHANGED <<impl, opts, tmp, callNo, chapterExists, nPages,
                   fs0, fetched, looked, auxFailed, pageFailed, encFailed>>

\* if options.ReadAfter { return path, c.readChapter(ctx, path, chapter, ...) }
ReadChapter ==
    /\ pc = "read"
    /\ \E ok \in BOOLEAN :
          Return(ChapterPath(opts), IF ok THEN NoErr ELSE StepErr("read"), fetched)
    /\ UNCHANGED <<impl, opts, fs, tmp, callNo, chapterExists, nPages, mergeQueue,
                   fs0, fetched, looked, auxFailed, pageFailed, encFailed>>

-----------------------------------------------------------------------------
(* Anilist: FindClosestManga and its search loop *)

\* Titles are strings over a small alphabet: a lower-case letter, an
\* upper-case letter and a space.
Chars == {"a", "B", " "}
Titles == UNION {[1..n -> Chars] : n \in 0..MaxTitleLen}

ToLower(ch) == IF ch = "B" THEN "b" ELSE ch

RECURSIVE TrimLeft(_)
TrimLeft(str) ==
    IF str # <<>> /\ Head(str) = " " THEN TrimLeft(Tail(str)) ELSE str

RECURSIVE TrimRight(_)
TrimRight(str) ==
    IF str # <<>> /\ str[Len(str)] = " "
    THEN TrimRight(SubSeq(str, 1, Len(str) - 1))
    ELSE str

\* strings.ToLower(strings.TrimSpace(s))
unifyString(str) ==
    LET t == TrimRight(TrimLeft(str))
    IN  [i \in 1..Len(t) |-> ToLower(t[i])]

\* The arguments FindClosestManga passes to findClosestManga: step, limit.
FindStep == 3
FindLimit == 3

\* The length the loop cuts currentTitle to after a search with no result;
\* 0 stands for the branch that gives up.
NewLenStepOnly(len, step) == IF len > step THEN len - step ELSE 0
NewLen(len, step) ==
    IF len > step THEN len - step
    ELSE IF len > 1 THEN len - 1
    ELSE 0

AnIdle ==
    /\ anImpl = "anilist" /\ title = <<>> /\ currentTitle = <<>> /\ try = 0
    /\ queries = <<>> /\ results = <<>> /\ titleCached = FALSE /\ fcInner = "none"
    /\ fcPc = "idle" /\ fcRes = "none"

InitFind ==
    /\ anImpl \in {"anilist", "client"}
    /\ title \in Titles
    /\ titleCached \in BOOLEAN
    /\ currentTitle = <<>> /\ try = 0 /\ queries = <<>> /\ results = <<>>
    /\ fcInner = "none" /\ fcPc = "idle" /\ fcRes = "none"

\* FindClosestManga up to the call of findClosestManga: title =
\* unifyString(title), then the title store and the id store are asked.
\* A store error is returned by Anilist.FindClosestManga; the client's
\* AnilistFindClosestManga deletes the entry and goes on.
FindClosestManga ==
    /\ fcPc = "idle"
    /\ currentTitle' = unifyString(title)
    /\ try' = 0
    /\ \E how \in {"storeErr", "lookup"} :
          CASE how = "storeErr" /\ anImpl = "anilist" ->
                  fcPc' = "done" /\ fcRes' = "err" /\ titleCached' = titleCached
            [] how = "storeErr" /\ anImpl = "client" ->
                  fcPc' = "loop" /\ fcRes' = fcRes /\ titleCached' = FALSE
            [] how = "lookup" /\ titleCached ->
                  fcPc' = "done" /\ fcRes' = "manga" /\ titleCached' = titleCached
            [] OTHER ->
                  fcPc' = "loop" /\ fcRes' = fcRes /\ titleCached' = titleCached
    /\ UNCHANGED <<anImpl, title, queries, results, fcInner>>

\* if try >= limit: Anilist.findClosestManga returns nil, false, nil; the
\* client's anilistFindClosestManga returns the "no results found" error.
LimitReached ==
    /\ fcPc = "loop"
    /\ try >= FindLimit
    /\ fcInner' = IF anImpl = "anilist" THEN "notfound" ELSE "err"
    /\ fcPc' = "finish"
    /\ UNCHANGED <<anImpl, title, currentTitle, try, queries, results, titleCached,
                   fcRes>>

\* What findClosestManga does with what SearchMangas returned.  found:
\* "err" the search fails; "none" it returns no manga; "far"
\* GetClosestManga rejects what it returned; "close" GetClosestManga picks
\* one.
AfterSearch(found) ==
    CASE found = "err" ->
            /\ fcInner' = "err" /\ fcPc' = "finish"
            /\ UNCHANGED <<currentTitle, try>>
      [] found = "close" ->
            /\ fcInner' = "found" /\ fcPc' = "finish"
            /\ UNCHANGED <<currentTitle, try>>
      [] found = "far" ->
            /\ fcInner' = IF anImpl = "anilist" THEN "notfound" ELSE "err"
            /\ fcPc' = "finish"
            /\ UNCHANGED <<currentTitle, try>>
      [] OTHER ->
            LET newLen == NewLen(Len(currentTitle), FindStep)
            IN  IF newLen > 0
                THEN /\ currentTitle' = SubSeq(currentTitle, 1, newLen)
                     /\ try' = try + 1
                     /\ UNCHANGED <<fcInner, fcPc>>
                ELSE IF anImpl = "anilist"
                THEN /\ fcInner' = "notfound" /\ fcPc' = "finish"
                     /\ UNCHANGED <<currentTitle, try>>
                ELSE /\ currentTitle' = unifyString(title)
                     /\ try' = FindLimit
                     /\ UNCHANGED <<fcInner, fcPc>>

\* One pass of findClosestManga below the limit: SearchMangas(ctx,
\* currentTitle) and what follows.
SearchPass ==
    /\ fcPc = "loop"
    /\ try < FindLimit
    /\ queries' = Append(queries, currentTitle)
    /\ \E found \in {"err", "none", "far", "close"} :
          /\ results' = Append(results, found)
          /\ AfterSearch(found)
    /\ UNCHANGED <<anImpl, title, titleCached, fcRes>>

\* FindClosestManga after findClosestManga returned.  Anilist's version
\* reads manga.ID for cacheSetTitle before it looks at ok: with a nil manga
\* that is a nil pointer dereference.  The client's version drops the
\* store's error.
FinishFind ==
    /\ fcPc = "finish"
    /\ fcPc' = "done"
    /\ \E stored \in BOOLEAN :
          CASE fcInner = "err" ->
                  stored /\ fcRes' = "err" /\ titleCached' = titleCached
            [] fcInner = "notfound" ->
                  stored /\ fcRes' = "panic" /\ titleCached' = titleCached
            [] OTHER ->
                  /\ titleCached' = (titleCached \/ stored)
                  /\ fcRes' = IF stored \/ anImpl = "client" THEN "manga" ELSE "err"
    /\ UNCHANGED <<anImpl, title, currentTitle, try, queries, results, fcInner>>

-----------------------------------------------------------------------------
(* The resolver over its three stores: GetByID, SearchMangas,
   FindClosestManga, BindTitleWithID, called one after another *)

\* Anilist's ids are 1..MaxIds; 0 is an id Anilist never had.
Ids == 1..MaxIds

\* The ids callers pass: one Anilist never had and one it has.
AskedIds == {0, 1}

\* The title of manga i: "a", "aB", "aBB", ...
Name(i) == [j \in 1..i |-> IF j = 1 THEN "a" ELSE "B"]

\* The three renderings Anilist has of the title of manga i: one manga in
\* three has an English title, one only a romaji and a native one, one
\* only a native one.
TitleOf(i) ==
    [English |-> IF i % 3 = 2 THEN Name(i) ELSE <<>>,
     Romaji  |-> IF i % 3 = 1 THEN Name(i) ELSE IF i % 3 = 2 THEN <<"r">> ELSE <<>>,
     Native  |-> IF i % 3 = 0 THEN Name(i) ELSE <<"n">>]

\* AnilistManga.String: the first rendering that is not empty.
String(t) ==
    IF t.English # <<>> THEN t.English
    ELSE IF t.Romaji # <<>> THEN t.Romaji
    ELSE t.Native

\* An AnilistManga as the API returns it, with the title String() gives.
Media(i) == [ID |-> i, Title |-> String(TitleOf(i))]

\* The strings callers pass as query or title.
RsInputs ==
    {<<"a">>, <<" ", "a">>, <<"a", "B", " ">>, <<"a", "a">>}

IsPrefix(p, str) == Len(p) <= Len(str) /\ SubSeq(str, 1, Len(p)) = p

\* What Anilist answers to a search: the mangas whose title starts with
\* the query, the highest id first.
RECURSIVE NetSearch(_, _, _)
NetSearch(query, cat, i) ==
    IF i = 0 THEN <<>>
    ELSE IF i \in cat /\ IsPrefix(query, unifyString(Name(i)))
    THEN <<Media(i)>> \o NetSearch(query, cat, i - 1)
    ELSE NetSearch(query, cat, i - 1)

\* levenshtein.Distance
RECURSIVE Distance(_, _)
Distance(s, t) ==
    IF s = <<>> THEN Len(t)
    ELSE IF t = <<>> THEN Len(s)
    ELSE LET del == Distance(Tail(s), t) + 1
             ins == Distance(s, Tail(t)) + 1
             sub == Distance(Tail(s), Tail(t)) + (IF Head(s) = Head(t) THEN 0 ELSE 1)
             m   == IF del < ins THEN del ELSE ins
         IN  IF sub < m THEN sub ELSE m

\* lo.MinBy with the default comparison: the first manga no later one is
\* strictly closer than.
RECURSIVE MinBy(_, _, _)
MinBy(str, mangas, min) ==
    IF mangas = <<>> THEN min
    ELSE IF Distance(str, unifyString(Head(mangas).Title))
              < Distance(str, unifyString(min.Title))
    THEN MinBy(str, Tail(mangas), Head(mangas))
    ELSE MinBy(str, Tail(mangas), min)

\* DefaultAnilistOptions().GetClosestManga, for a non-empty list.
GetClosestManga(str, mangas) ==
    MinBy(unifyString(str), Tail(mangas), Head(mangas))

\* gokv.Store: Get, Set, Delete on a store held as a set of entries.
Has(store, key) == \E en \in store : en.k = key
Val(store, key) == (CHOOSE en \in store : en.k = key).v
Put(store, key, val) == {en \in store : en.k # key} \cup {[k |-> key, v |-> val]}
Del(store, key) == {en \in store : en.k # key}

RECURSIVE PutAll(_, _)
PutAll(store, mangas) ==
    IF mangas = <<>> THEN store
    ELSE PutAll(Put(store, Head(mangas).ID, Head(mangas)), Tail(mangas))

IdsOf(mangas) == [i \in 1..Len(mangas) |-> mangas[i].ID]

\* What a call works on: the three stores, and counters of the requests
\* sent (net), of the searches made (srch) and of the ids written to the
\* title store with whether a manga for the id was in the id store or in
\* Anilist's catalog then (tw).
Ctx0 ==
    [qs |-> qStore, ts |-> tStore, ms |-> idStore, net |-> 0, srch |-> 0,
     tw |-> {}]

Ret(c, out, ok, err) == [c |-> c, out |-> out, ok |-> ok, err |-> err]

\* A call meets at most one kind of fault: every Get of a store fails
\* ("get"), every Set fails ("set"), or every request fails ("net").
Faults == {"none", "get", "set", "net"}

\* Anilist.getByID: one request; a nil Media is an error.
getByID(c, id, cat, fault) ==
    LET c1 == [c EXCEPT !.net = @ + 1]
    IN  IF fault = "net" THEN Ret(c1, <<>>, FALSE, "net")
        ELSE IF id \notin cat THEN Ret(c1, <<>>, FALSE, "manga by id not found")
        ELSE Ret(c1, <<Media(id)>>, TRUE, "nil")

\* Anilist.GetByID without the look into the id store.
GetByIDUncached(c, id, cat, fault) ==
    LET r == getByID(c, id, cat, fault)
    IN  IF r.err # "nil" THEN r
        ELSE IF fault = "set" THEN Ret(r.c, <<>>, FALSE, "store")
        ELSE [r EXCEPT !.c.ms = Put(@, id, r.out[1])]

\* Anilist.GetByID
GetByID(c, id, cat, fault) ==
    IF fault = "get" THEN Ret(c, <<>>, FALSE, "store")
    ELSE IF Has(c.ms, id) THEN Ret(c, <<Val(c.ms, id)>>, TRUE, "nil")
    ELSE LET r == getByID(c, id, cat, fault)
         IN  IF r.err # "nil" THEN r
             ELSE IF fault = "set" THEN Ret(r.c, <<>>, FALSE, "store")
             ELSE [r EXCEPT !.c.ms = Put(@, id, r.out[1])]

\* SearchMangas' loop over the cached ids: GetByID for each, the first
\* error ends it.
RECURSIVE ResolveAll(_, _, _, _, _)
ResolveAll(c, ids, cat, fault, acc) ==
    IF ids = <<>> THEN Ret(c, acc, TRUE, "nil")
    ELSE LET r == GetByID(c, Head(ids), cat, fault)
         IN  IF r.err # "nil" THEN Ret(r.c, <<>>, FALSE, r.err)
             ELSE ResolveAll(r.c, Tail(ids), cat, fault, acc \o r.out)

\* Anilist.searchMangas, and the request inside Client.AnilistSearchManga.
searchMangas(c, query, cat, fault) ==
    LET c1 == [c EXCEPT !.net = @ + 1]
    IN  IF fault = "net" THEN Ret(c1, <<>>, FALSE, "net")
        ELSE Ret(c1, NetSearch(query, cat, MaxIds), TRUE, "nil")

\* The end of a search that leaves the query store as it was.
StoreSearchedNoQuery(c, query, mangas) == [c EXCEPT !.ms = PutAll(@, mangas)]

\* The end of a search that leaves the id store as it was.
StoreSearchedNoMangas(c, query, mangas) ==
    [c EXCEPT !.qs = Put(@, query, IdsOf(mangas))]

\* The end of a search that asked Anilist: the mangas go to the id store,
\* their ids to the query store.
StoreSearched(c, query, mangas) ==
    [c EXCEPT !.ms = PutAll(@, mangas), !.qs = Put(@, query, IdsOf(mangas))]

\* Anilist.SearchMangas
SearchMangas(c, q, cat, fault) ==
    LET query == unifyString(q)
        c0    == [c EXCEPT !.srch = @ + 1]
    IN  IF fault = "get" THEN Ret(c0, <<>>, FALSE, "store")
        ELSE IF Has(c.qs, query)
        THEN ResolveAll(c0, Val(c.qs, query), cat, fault, <<>>)
        ELSE LET r == searchMangas(c0, query, cat, fault)
             IN  IF r.err # "nil" THEN r
                 ELSE IF fault = "set" THEN Ret(r.c, <<>>, FALSE, "store")
                 ELSE [r EXCEPT !.c = StoreSearched(@, query, r.out)]

\* Client.AnilistSearchManga: a failing Get deletes the key; the cached
\* ids are filtered by the id store; if none is left the key is deleted
\* and the search starts over, which then asks Anilist.  The results of
\* Set and Delete are dropped.
AnilistSearchManga(c, q, cat, fault) ==
    LET query == unifyString(q)
        c0    == [c EXCEPT !.srch = @ + 1]
        hit   == fault # "get" /\ Has(c.qs, query)
        kept  == IF hit
                 THEN SelectSeq(Val(c.qs, query), LAMBDA id : Has(c.ms, id))
                 ELSE <<>>
    IN  IF kept # <<>>
        THEN Ret(c0, [i \in 1..Len(kept) |-> Val(c.ms, kept[i])], TRUE, "nil")
        ELSE LET c1 == IF fault = "get" \/ hit
                       THEN [c0 EXCEPT !.qs = Del(@, query)]
                       ELSE c0
                 r  == searchMangas(c1, query, cat, fault)
             IN  IF r.err # "nil" \/ fault = "set" THEN r
                 ELSE [r EXCEPT !.c = StoreSearched(@, query, r.out)]

Search(kind, c, q, cat, fault) ==
    IF kind = "anilist" THEN SearchMangas(c, q, cat, fault)
    ELSE AnilistSearchManga(c, q, cat, fault)

\* findClosestManga and anilistFindClosestManga, with step 3 and limit 3.
\* At the limit and when the title cannot be cut any more the Anilist
\* returns nil, false, nil and the client an error.
RECURSIVE findClosestManga(_, _, _, _, _, _, _)
findClosestManga(kind, c, originalTitle, current, tryNo, cat, fault) ==
    IF tryNo >= FindLimit
    THEN Ret(c, <<>>, FALSE, IF kind = "anilist" THEN "nil" ELSE "no results found")
    ELSE LET r == Search(kind, c, current, cat, fault)
         IN  IF r.err # "nil" THEN Ret(r.c, <<>>, FALSE, r.err)
             ELSE IF r.out = <<>>
             THEN LET newLen == NewLen(Len(current), FindStep)
                  IN  IF newLen > 0
                      THEN findClosestManga(kind, r.c, originalTitle,
                                            SubSeq(current, 1, newLen),
                                            tryNo + 1, cat, fault)
                      ELSE IF kind = "anilist"
                      THEN Ret(r.c, <<>>, FALSE, "nil")
                      ELSE findClosestManga(kind, r.c, originalTitle,
                                            originalTitle, FindLimit, cat, fault)
             ELSE Ret(r.c, <<GetClosestManga(current, r.out)>>, TRUE, "nil")

\* A Set on the title store that stores nothing.
SetTitleDropped(c, key, id, cat) == c

\* cacheSetTitle / TitleToIdStore.Set: the Set on the title store.
SetTitle(c, key, id, cat) ==
    [c EXCEPT !.ts = Put(@, key, id),
              !.tw = @ \cup {[id |-> id, ok |-> Has(c.ms, id) \/ id \in cat]}]

\* Anilist.FindClosestManga and Client.AnilistFindClosestManga from the
\* point where the title store gave no usable manga: the loop, then the
\* write to the title store.  The Anilist reads manga.ID before it looks
\* at ok, a nil pointer dereference when nothing was found.
Resolve(kind, c, key, cat, fault) ==
    LET r == findClosestManga(kind, c, key, key, 0, cat, fault)
    IN  IF r.err # "nil" THEN r
        ELSE IF ~r.ok THEN [r EXCEPT !.err = "panic"]
        ELSE IF fault = "set"
        THEN IF kind = "anilist" THEN Ret(r.c, <<>>, FALSE, "store") ELSE r
        ELSE [r EXCEPT !.c = SetTitle(@, key, r.out[1].ID, cat)]

\* The title store's answer taken without asking the id store for the
\* manga.
CachedMangaUnchecked(c, key) ==
    IF Has(c.ts, key) THEN <<Media(Val(c.ts, key))>> ELSE <<>>

\* The two lookups FindClosestManga starts with: the title store for the
\* id, the id store for the manga; <<>> unless both have it.
CachedManga(c, key) ==
    IF Has(c.ts, key) /\ Has(c.ms, Val(c.ts, key))
    THEN <<Val(c.ms, Val(c.ts, key))>>
    ELSE <<>>

\* Anilist.FindClosestManga and Client.AnilistFindClosestManga
FindClosest(kind, c, t, cat, fault) ==
    LET key == unifyString(t)
    IN  IF fault = "get"
        THEN IF kind = "anilist" THEN Ret(c, <<>>, FALSE, "store")
             ELSE Resolve(kind, [c EXCEPT !.ts = Del(@, key)], key, cat, fault)
        ELSE IF CachedManga(c, key) # <<>>
        THEN Ret(c, CachedManga(c, key), TRUE, "nil")
        ELSE Resolve(kind, c, key, cat, fault)

\* BindTitleWithID and BindTitleWithAnilistId: Set on the title store,
\* with the title as it was passed.
BindTitleWithID(c, t, id, cat, fault) ==
    IF fault = "set" THEN Ret(c, <<>>, FALSE, "store")
    ELSE Ret(SetTitle(c, t, id, cat), <<>>, TRUE, "nil")

\* ---- the calls as steps ----

Last2(h) == IF Len(h) > 2 THEN SubSeq(h, Len(h) - 1, Len(h)) ELSE h

\* A step's entry in the history: what was called with what, what it
\* returned, the counters, and the stores and catalog it started from.
Entry(op, arg, fault, r) ==
    [op |-> op, arg |-> arg, fault |-> fault, out |-> r.out, ok |-> r.ok,
     err |-> r.err, net |-> r.c.net, srch |-> r.c.srch, tw |-> r.c.tw,
     qs0 |-> qStore, ts0 |-> tStore, ms0 |-> idStore, cat0 |-> catalog]

Finish(op, arg, fault, r) ==
    /\ qStore' = r.c.qs
    /\ tStore' = r.c.ts
    /\ idStore' = r.c.ms
    /\ ops' = ops + 1
    /\ faults' = faults + (IF fault = "none" THEN 0 ELSE 1)
    /\ log' = Last2(Append(log, Entry(op, arg, fault, r)))
    /\ UNCHANGED <<rsImpl, catalog, env>>

\* At most one call of a behaviour meets a fault.
MayFault(fault) == fault = "none" \/ faults = 0

RsIdle ==
    /\ rsImpl = "anilist" /\ qStore = {} /\ tStore = {} /\ idStore = {}
    /\ catalog = {} /\ ops = 0 /\ env = {} /\ faults = 0 /\ log = <<>>

\* A fresh resolver: syncmap stores, empty.
InitStores ==
    /\ rsImpl \in {"anilist", "client"}
    /\ qStore = {} /\ tStore = {} /\ idStore = {}
    /\ catalog = Ids
    /\ ops = 0 /\ env = {} /\ faults = 0 /\ log = <<>>

\* GetByID(ctx, id); only the Anilist type has it.
CallGetByID ==
    /\ ops < MaxOps
    /\ rsImpl = "anilist"
    /\ \E id \in AskedIds, fault \in Faults :
          /\ MayFault(fault)
          /\ Finish("GetByID", id, fault, GetByID(Ctx0, id, catalog, fault))

\* SearchMangas(ctx, query) / AnilistSearchManga(ctx, query)
CallSearch ==
    /\ ops < MaxOps
    /\ \E q \in RsInputs, fault \in Faults :
          /\ MayFault(fault)
          /\ Finish("Search", q, fault, Search(rsImpl, Ctx0, q, catalog, fault))

\* FindClosestManga(ctx, title) / AnilistFindClosestManga(ctx, title)
CallFindClosest ==
    /\ ops < MaxOps
    /\ \E t \in RsInputs, fault \in Faults :
          /\ MayFault(fault)
          /\ Finish("FindClosest", t, fault,
                    FindClosest(rsImpl, Ctx0, t, catalog, fault))

\* BindTitleWithID(title, id) / BindTitleWithAnilistId(title, id)
CallBind ==
    /\ ops < MaxOps
    /\ \E t \in RsInputs, id \in AskedIds, fault \in {"none", "set"} :
          /\ MayFault(fault)
          /\ Finish("Bind", <<t, id>>, fault,
                    BindTitleWithID(Ctx0, t, id, catalog, fault))

\* The id store is the caller's gokv.Store: an entry of it can go away
\* between two calls while the other two stores keep theirs.
Evict ==
    /\ ops < MaxOps
    /\ "Evict" \notin env
    /\ env' = env \cup {"Evict"}
    /\ \E en \in idStore :
          /\ idStore' = idStore \ {en}
          /\ log' = Last2(Append(log, Entry("Evict", en.k, "none",
                                            Ret(Ctx0, <<>>, TRUE, "nil"))))
    /\ UNCHANGED <<rsImpl, qStore, tStore, catalog, ops, faults>>

\* Anilist removes a manga from its catalog.
Unlist ==
    /\ ops < MaxOps
    /\ "Unlist" \notin env
    /\ env' = env \cup {"Unlist"}
    /\ \E id \in catalog :
          /\ catalog' = catalog \ {id}
          /\ log' = Last2(Append(log, Entry("Unlist", id, "none",
                                            Ret(Ctx0, <<>>, TRUE, "nil"))))
    /\ UNCHANGED <<rsImpl, qStore, tStore, idStore, ops, faults>>

-----------------------------------------------------------------------------
(* sendRequest: one request to Anilist with its rate-limit retries.  The
   request inside Client.AnilistSearchManga has the same steps. *)

\* The values the X-RateLimit-Remaining header of a 429 response comes
\* with; <<>> is the header left out.
Headers == {<<>>, <<"0">>, <<"2">>, <<"x">>}

Digits == <<"0", "1", "2", "3", "4", "5", "6", "7", "8", "9">>
IsDigit(ch) == \E d \in 1..10 : Digits[d] = ch
DigitVal(ch) == (CHOOSE d \in 1..10 : Digits[d] = ch) - 1

\* strconv.Atoi: is str a decimal number, and which.
AtoiOk(str) == str # <<>> /\ \A i \in 1..Len(str) : IsDigit(str[i])

RECURSIVE Atoi(_)
Atoi(str) ==
    IF str = <<>> THEN 0
    ELSE 10 * Atoi(SubSeq(str, 1, Len(str) - 1)) + DigitVal(str[Len(str)])

\* retryAfter := response.Header.Get(...); if retryAfter == "" { retryAfter = "90" }
RetryAfter(header) == IF header = <<>> THEN <<"9", "0">> ELSE header

\* What HTTPClient.Do comes back with when ctx is not cancelled.
Responses ==
    {[status |-> st, header |-> <<>>] : st \in {"200", "500", "transport"}}
        \cup {[status |-> "429", header |-> h] : h \in Headers}

\* A select that has no case for ctx.Done().
SelectTimerOnly(timerReady, ctxReady) ==
    IF timerReady THEN {"timer"} ELSE {"none"}

\* select { case <-time.After(...): case <-ctx.Done(): }: the cases it may
\* wake up with; "none" while neither channel is ready.
Select(timerReady, ctxReady) ==
    IF ~timerReady /\ ~ctxReady THEN {"none"}
    ELSE (IF timerReady THEN {"timer"} ELSE {}) \cup (IF ctxReady THEN {"ctx"} ELSE {})

RqIdle ==
    /\ rqPc = "idle" /\ rqCtxDone = FALSE /\ rqSent = 0
    /\ rqLast = [status |-> "none", header |-> <<>>]
    /\ rqSeconds = 0 /\ rqLeft = 0 /\ rqWoken = "none" /\ rqRes = "none"
    /\ rqSeen429 = 0 /\ rqCancel = <<>>

\* The call is made.
InitRq ==
    /\ rqPc = "send" /\ rqCtxDone = FALSE /\ rqSent = 0
    /\ rqLast = [status |-> "none", header |-> <<>>]
    /\ rqSeconds = 0 /\ rqLeft = 0 /\ rqWoken = "none" /\ rqRes = "none"
    /\ rqSeen429 = 0 /\ rqCancel = <<>>

RqReturn(result) ==
    /\ rqPc' = "done"
    /\ rqRes' = result

\* HTTPClient.Do with a cancelled ctx: the ctx's error, nothing goes out.
SendCancelled ==
    /\ rqPc = "send"
    /\ rqCtxDone
    /\ RqReturn("ctx")
    /\ UNCHANGED <<rqCtxDone, rqSent, rqLast, rqSeconds, rqLeft, rqWoken,
                   rqSeen429, rqCancel>>

\* The request goes out and the response is not a 429: a transport error,
\* a status other than 200, or the data.
SendAnswered ==
    /\ rqPc = "send"
    /\ ~rqCtxDone
    /\ \E resp \in Responses :
          /\ resp.status # "429"
          /\ rqLast' = resp
          /\ RqReturn(CASE resp.status = "200" -> "data"
                        [] resp.status = "500" -> "status"
                        [] OTHER -> "transport")
    /\ rqSent' = rqSent + 1
    /\ UNCHANGED <<rqCtxDone, rqSeconds, rqLeft, rqWoken, rqSeen429, rqCancel>>

\* The request goes out and the response is a 429: the header is parsed
\* with Atoi, whose error is returned; otherwise the select starts.  The
\* server answers with something else after MaxSends - 1 of these.
SendLimited ==
    /\ rqPc = "send"
    /\ ~rqCtxDone
    /\ rqSent < MaxSends - 1
    /\ rqSent' = rqSent + 1
    /\ rqSeen429' = rqSeen429 + 1
    /\ \E resp \in Responses :
          /\ resp.status = "429"
          /\ rqLast' = resp
          /\ IF AtoiOk(RetryAfter(resp.header))
             THEN /\ rqPc' = "wait"
                  /\ rqSeconds' = Atoi(RetryAfter(resp.header))
                  /\ rqLeft' = rqSeconds'
                  /\ rqWoken' \in Select(rqSeconds' = 0, FALSE)
                  /\ UNCHANGED rqRes
             ELSE /\ RqReturn("atoi")
                  /\ UNCHANGED <<rqSeconds, rqLeft, rqWoken>>
    /\ UNCHANGED <<rqCtxDone, rqCancel>>

\* A second of the wait passes.
Tick ==
    /\ rqPc = "wait"
    /\ rqWoken = "none"
    /\ rqLeft > 0
    /\ rqLeft' = rqLeft - 1
    /\ rqWoken' \in Select(rqLeft' = 0, FALSE)
    /\ UNCHANGED <<rqPc, rqCtxDone, rqSent, rqLast, rqSeconds, rqRes,
                   rqSeen429, rqCancel>>

\* The caller cancels ctx.  A select that is blocked wakes up with the ctx
\* case; one whose timer has fired but that has not run yet may take
\* either case.
Cancel ==
    /\ rqPc \in {"send", "wait"}
    /\ ~rqCtxDone
    /\ rqCtxDone' = TRUE
    /\ IF rqPc = "wait"
       THEN /\ rqWoken' \in Select(rqWoken = "timer", TRUE)
            /\ rqCancel' = IF rqWoken = "none"
                           THEN [sent |-> rqSent, left |-> rqLeft]
                           ELSE rqCancel
       ELSE UNCHANGED <<rqWoken, rqCancel>>
    /\ UNCHANGED <<rqPc, rqSent, rqLast, rqSeconds, rqLeft, rqRes, rqSeen429>>

\* The select returns: ctx.Err() for the ctx case, the recursive call that
\* sends the same request again for the timer case.
Wake ==
    /\ rqPc = "wait"
    /\ rqWoken # "none"
    /\ IF rqWoken = "ctx"
       THEN RqReturn("ctx")
       ELSE rqPc' = "send" /\ UNCHANGED rqRes
    /\ rqWoken' = "none"
    /\ UNCHANGED <<rqCtxDone, rqSent, rqLast, rqSeconds, rqLeft, rqSeen429,
                   rqCancel>>

-----------------------------------------------------------------------------
(* getSeriesJson and getComicInfoXml: the provider's own record, or one
   made from the closest Anilist manga *)

\* The mangas a provider hands over: MangaInfo's Title and AnilistSearch,
\* whether the manga (chapter) implements MangaWithSeriesJson
\* (ChapterWithComicInfoXml), and whether that method returns an error.
MdMangas ==
    [Title : {"Berserk", "Beruseruku", "Vagabond"},
     AnilistSearch : {"", "Berserk", "Vagabond"},
     supplies : BOOLEAN, fails : BOOLEAN]

\* MakeMangaWithAnilist: a.FindClosestManga(ctx, manga.Title)
SearchTitle(manga) == manga.Title

MdIdle ==
    /\ mdManga = [Title |-> "", AnilistSearch |-> "", supplies |-> FALSE,
                  fails |-> FALSE]
    /\ mdPc = "idle" /\ mdCall = "none" /\ mdFrom = "none" /\ mdKeys = <<>>
    /\ mdErr = FALSE

InitMd ==
    /\ mdManga \in MdMangas
    /\ mdPc = "ready" /\ mdCall = "none" /\ mdFrom = "none" /\ mdKeys = <<>>
    /\ mdErr = FALSE

\* The type assertion succeeded: the provider's method is called; its
\* error is returned, its record otherwise.
FromProvider ==
    /\ mdManga.supplies
    /\ mdFrom' = "provider"
    /\ mdErr' = mdManga.fails
    /\ UNCHANGED mdKeys

\* The type assertion failed: MakeMangaWithAnilist (MakeChapterWithAnilist,
\* which calls it with the chapter's manga); found is what FindClosestManga
\* came back with.
FromAnilist ==
    /\ ~mdManga.supplies
    /\ mdKeys' = Append(mdKeys, SearchTitle(mdManga))
    /\ \E found \in {"manga", "notfound", "err"} :
          /\ mdFrom' = IF found = "manga" THEN "anilist" ELSE "none"
          /\ mdErr' = (found # "manga")

\* Client.getSeriesJson
GetSeriesJson ==
    /\ mdPc = "ready"
    /\ mdPc' = "done"
    /\ mdCall' = "series"
    /\ FromProvider \/ FromAnilist
    /\ UNCHANGED mdManga

\* Client.getComicInfoXml
GetComicInfoXml ==
    /\ mdPc = "ready"
    /\ mdPc' = "done"
    /\ mdCall' = "comicinfo"
    /\ FromProvider \/ FromAnilist
    /\ UNCHANGED mdManga

\* The caller goes on to the next manga.
MdNext ==
    /\ mdPc = "done"
    /\ mdManga' \in MdMangas
    /\ mdPc' = "ready" /\ mdCall' = "none" /\ mdFrom' = "none" /\ mdKeys' = <<>>
    /\ mdErr' = FALSE

-----------------------------------------------------------------------------
(* Client.SaveCBZ *)

\* The decimal digits of n, as fmt and encoding/xml write an int.
RECURSIVE Itoa(_)
Itoa(n) ==
    IF n < 10 THEN <<Digits[n + 1]>>
    ELSE Itoa(n \div 10) \o <<Digits[(n % 10) + 1]>>

\* fmt.Sprintf("%04d", n): at least four digits, zeros on the left.
Pad4(n) ==
    LET str == Itoa(n)
    IN IF Len(str) >= 4 THEN str
       ELSE [i \in 1..(4 - Len(str)) |-> "0"] \o str

\* fmt.Sprintf("%04d%s", i+1, page.GetExtension())
PageName(i, ext) == Pad4(i + 1) \o <<ext>>

filenameComicInfoXML == <<"ComicInfo.xml">>

Extensions == {".png", ".jpg"}

\* What a caller can hand to SaveCBZ.
CzPages == UNION {[1..n -> Extensions] : n \in 0..MaxCbzPages}
CzInfos == [Count : 0..MaxCbzPages]

\* ComicInfoXml.wrapper: the record's fields are copied, PageCount is not
\* among them and stays zero.
Wrapper(info) == [Count |-> info.Count, PageCount |-> 0]

\* SaveCBZ without "wrapper.PageCount = len(pages)".
PageCountKept(wrapper, n) == wrapper

\* wrapper.PageCount = len(pages)
PageCountSet(wrapper, n) == [wrapper EXCEPT !.PageCount = n]

\* comicInfoXmlWrapper.marshal: one element per field, its int in decimal;
\* a field tagged omitempty is left out when it is zero.
Marshal(wrapper) ==
    {<<field, Itoa(wrapper[field])>> :
        field \in {f \in DOMAIN wrapper : wrapper[f] # 0}}

CzIdle ==
    /\ czPages = <<>> /\ czInfo = [Count |-> 0] /\ czPc = "idle"
    /\ czZip = <<>>

InitCz ==
    /\ czPages \in CzPages
    /\ czInfo \in CzInfos
    /\ czPc = "pages"
    /\ czZip = <<>>

\* One turn of the loop: CreateHeader and Write of page i succeed.
SavePage ==
    /\ czPc = "pages"
    /\ Len(czZip) < Len(czPages)
    /\ LET i == Len(czZip)
       IN czZip' = Append(czZip, [Name |-> PageName(i, czPages[i + 1]),
                                  Body |-> [page |-> i + 1]])
    /\ UNCHANGED <<czPages, czInfo, czPc>>

\* After the loop: the wrapper is made, its PageCount set, marshalled and
\* written as the last entry; SaveCBZ returns nil.
SaveInfo ==
    /\ czPc = "pages"
    /\ Len(czZip) = Len(czPages)
    /\ LET wrapper == PageCountSet(Wrapper(czInfo), Len(czPages))
       IN czZip' = Append(czZip, [Name |-> filenameComicInfoXML,
                                  Body |-> Marshal(wrapper)])
    /\ czPc' = "done"
    /\ UNCHANGED <<czPages, czInfo>>

\* CreateHeader, Write or marshal returned an error: SaveCBZ returns it.
SaveFails ==
    /\ czPc = "pages"
    /\ czPc' = "failed"
    /\ UNCHANGED <<czPages, czInfo, czZip>>

-----------------------------------------------------------------------------
(* Client.readChapter, Client.markChapterAsRead *)

\* The chapter numbers, in tenths: -1.5, 0, 0.5, 1.5, 2.5.
Tenths == {-15, 0, 5, 15, 25}

\* What one call meets: whether open.Run opens the file, whether the
\* Anilist client holds a token, the incognito option, what
\* FindClosestManga comes back with and the chapter's number.
RdInputs ==
    [opens : BOOLEAN, authorized : BOOLEAN, incognito : BOOLEAN,
     found : {"manga", "notfound", "err"}, tenths : Tenths]

\* The nearest integer instead of the integer part.
Round(tenths) == (tenths + 5) \div 10

\* int(math.Trunc(float64(number))): the integer part, towards zero.
Trunc(tenths) ==
    IF tenths >= 0 THEN tenths \div 10 ELSE -((-tenths) \div 10)

RdIdle ==
    /\ rdIn = [opens |-> FALSE, authorized |-> FALSE, incognito |-> FALSE,
               found |-> "err", tenths |-> 0]
    /\ rdPc = "idle" /\ rdLooked = FALSE /\ rdReported = <<>> /\ rdErr = FALSE

InitRd ==
    /\ rdIn \in RdInputs
    /\ rdPc = "ready" /\ rdLooked = FALSE /\ rdReported = <<>> /\ rdErr = FALSE

\* Client.markChapterAsRead: the manga is looked up; only when it is found
\* is SetProgress called, and its error is the result.
markChapterAsRead ==
    /\ rdLooked' = TRUE
    /\ IF rdIn.found = "manga"
       THEN /\ rdReported' = Append(rdReported, Trunc(rdIn.tenths))
            /\ \E setErr \in BOOLEAN : rdErr' = setErr
       ELSE /\ rdReported' = rdReported
            /\ rdErr' = TRUE

\* Client.readChapter
readChapter ==
    /\ rdPc = "ready"
    /\ rdPc' = "done"
    /\ IF ~rdIn.opens
       THEN rdErr' = TRUE /\ UNCHANGED <<rdLooked, rdReported>>
       ELSE IF rdIn.authorized /\ ~rdIn.incognito
            THEN markChapterAsRead
            ELSE rdErr' = FALSE /\ UNCHANGED <<rdLooked, rdReported>>
    /\ UNCHANGED rdIn

\* The caller goes on to the next chapter.
RdNext ==
    /\ rdPc = "done"
    /\ rdIn' \in RdInputs
    /\ rdPc' = "ready" /\ rdLooked' = FALSE /\ rdReported' = <<>>
    /\ rdErr' = FALSE

-----------------------------------------------------------------------------
(* NewClient, ProviderInfo.Validate *)

\* The length of the longest prefix of str made of digits.
DigitPrefix(str) ==
    CHOOSE n \in 0..Len(str) :
        /\ \A i \in 1..n : IsDigit(str[i])
        /\ n < Len(str) => ~IsDigit(str[n + 1])

\* semver.IsValid on versions without pre-release and build parts: "v",
\* then one to three numbers without leading zeros, separated by dots.
RECURSIVE IsNumbers(_, _)
IsNumbers(str, left) ==
    LET n == DigitPrefix(str)
        rest == SubSeq(str, n + 1, Len(str))
    IN /\ left > 0
       /\ n > 0
       /\ n > 1 => str[1] # "0"
       /\ \/ rest = <<>>
          \/ rest[1] = "." /\ IsNumbers(Tail(rest), left - 1)

IsValid(version) ==
    /\ version # <<>>
    /\ version[1] = "v"
    /\ IsNumbers(Tail(version), 3)

Versions ==
    {<<>>, <<"v">>, <<"v", "1">>, <<"v", "1", ".", "2">>,
     <<"v", "1", ".", "2", ".", "0">>, <<"1", ".", "2", ".", "0">>,
     <<"v", "0", "1", ".", "2", ".", "0">>, <<"v", "1", ".", "2", ".">>,
     <<"v", "1", ".", "2", ".", "0", ".", "0">>, <<"v", "x">>}

ProviderInfos ==
    [Name : {"", "mangadex", "mangapill"}, Version : Versions,
     Description : {"", "d"}]

\* A Validate that lets every descriptor through.
ValidateNothing(info) == "nil"

\* ProviderInfo.Validate: the error, or "nil".
Validate(info) ==
    IF info.Name = "" THEN "name must be non-empty"
    ELSE IF ~IsValid(info.Version) THEN "invalid semver"
    ELSE "nil"

NcIdle ==
    /\ ncInfo = [Name |-> "", Version |-> <<>>, Description |-> ""]
    /\ ncPc = "idle" /\ ncCalls = <<>> /\ ncNet = FALSE /\ ncRes = "none"

InitNc ==
    /\ ncInfo \in ProviderInfos
    /\ ncPc = "ready" /\ ncCalls = <<>> /\ ncNet = FALSE /\ ncRes = "none"

\* if err := loader.Info().Validate(); err != nil { return Client{}, err }
NewClientValidate ==
    /\ ncPc = "ready"
    /\ ncCalls' = Append(ncCalls, "Info")
    /\ IF Validate(ncInfo) # "nil"
       THEN ncPc' = "done" /\ ncRes' = "invalid"
       ELSE ncPc' = "load" /\ ncRes' = ncRes
    /\ UNCHANGED <<ncInfo, ncNet>>

\* provider, err := loader.Load(ctx): the loader may use the network and
\* may fail; NewClient returns its error or the client.
NewClientLoad ==
    /\ ncPc = "load"
    /\ ncCalls' = Append(ncCalls, "Load")
    /\ ncNet' \in BOOLEAN
    /\ \E ok \in BOOLEAN : ncRes' = IF ok THEN "client" ELSE "loaderr"
    /\ ncPc' = "done"
    /\ UNCHANGED ncInfo

\* The caller makes the next client.
NcNext ==
    /\ ncPc = "done"
    /\ ncInfo' \in ProviderInfos
    /\ ncPc' = "ready" /\ ncCalls' = <<>> /\ ncNet' = FALSE /\ ncRes' = "none"

-----------------------------------------------------------------------------
(* FindClosestManga / AnilistFindClosestManga on empty stores *)

\* The titles callers look for.
ClTitles ==
    {<<"a">>, <<"a", "B">>, <<"a", "a">>, <<" ", "a", "B", " ">>,
     <<"a", "B", "B", "B">>, <<"a", "B", "a">>, <<"B">>,
     <<"a", "a", "a", "a">>}

ClInputs == [kind : {"anilist", "client"}, title : ClTitles, cat : SUBSET Ids]

\* syncmap.NewStore three times: nothing stored, nothing counted.
EmptyCtx ==
    [qs |-> {}, ts |-> {}, ms |-> {}, net |-> 0, srch |-> 0, tw |-> {}]

ClIdle ==
    /\ clIn = [kind |-> "anilist", title |-> <<>>, cat |-> {}]
    /\ clPc = "idle"
    /\ clRet = Ret(EmptyCtx, <<>>, FALSE, "nil")

InitCl ==
    /\ clIn \in ClInputs
    /\ clPc = "ready"
    /\ clRet = Ret(EmptyCtx, <<>>, FALSE, "nil")

\* FindClosestManga(ctx, title), no store and no request failing.
ClosestFind ==
    /\ clPc = "ready"
    /\ clRet' = FindClosest(clIn.kind, EmptyCtx, clIn.title, clIn.cat, "none")
    /\ clPc' = "done"
    /\ UNCHANGED clIn

\* The caller turns to another resolver and title.
ClosestNext ==
    /\ clPc = "done"
    /\ clIn' \in ClInputs
    /\ clPc' = "ready"
    /\ clRet' = Ret(EmptyCtx, <<>>, FALSE, "nil")

-----------------------------------------------------------------------------
(* extractInfo, ProviderInfo.validate, ProviderHandle.LoadProvider *)

infoPrefix == "--|"

\* A line of the header as the providers write it: "--| key: value".
HeaderLine(key, value) == <<infoPrefix, " ", key, ":", " ">> \o value

\* The scripts: a header with or without each of its three lines, in the
\* order name, description, version, with or without a line that is no
\* mapping, followed by code with or without a plain comment before it.
NoInfo == [Name |-> <<>>, Description |-> <<>>, Version |-> <<>>]

ScriptOf(name, description, version, junk, comment) ==
    (IF comment THEN <<<<"--", " ", "name", ":", " ", "Other">>>> ELSE <<>>)
    \o (IF name # <<>> THEN <<HeaderLine("name", name)>> ELSE <<>>)
    \o (IF description # <<>> THEN <<HeaderLine("description", description)>> ELSE <<>>)
    \o (IF version # <<>> THEN <<HeaderLine("version", version)>> ELSE <<>>)
    \o (IF junk THEN <<<<infoPrefix, "junk">>>> ELSE <<>>)
    \o <<<<"function", " ", "SearchMangas">>>>

Scripts ==
    {ScriptOf(name, description, version, junk, comment) :
        name \in {<<>>, <<"Name">>},
        description \in {<<>>, <<"Description">>},
        version \in Versions \cup {<<"0", ".", "1", ".", "0">>},
        junk \in BOOLEAN, comment \in BOOLEAN}

\* The lines that start with the prefix, without it.
InfoLines(script) ==
    LET HasPrefix(line) == line # <<>> /\ line[1] = infoPrefix
        lines == SelectSeq(script, HasPrefix)
    IN  [i \in 1..Len(lines) |-> Tail(lines[i])]

\* A YAML mapping, a line for a key: blanks, the key, a colon, blanks, the
\* value.
IsPair(line) ==
    LET l == TrimLeft(line)
    IN  Len(l) >= 2 /\ l[2] = ":"

KeyOf(line) == TrimLeft(line)[1]
ValueOf(line) == TrimLeft(SubSeq(TrimLeft(line), 3, Len(TrimLeft(line))))

\* yaml.Unmarshal into ProviderInfo: the fields the lines name; a field no
\* line names stays empty.
Field(lines, key) ==
    IF \E i \in 1..Len(lines) : KeyOf(lines[i]) = key
    THEN ValueOf(lines[CHOOSE i \in 1..Len(lines) : KeyOf(lines[i]) = key])
    ELSE <<>>

\* extractInfo: [info, err].
extractInfo(script) ==
    LET lines == InfoLines(script)
        info  == [Name |-> Field(lines, "name"),
                  Description |-> Field(lines, "description"),
                  Version |-> Field(lines, "version")]
    IN  IF \E i \in 1..Len(lines) : ~IsPair(lines[i])
        THEN [info |-> NoInfo, err |-> "yaml"]
        ELSE IF info.Name = <<>> \/ ~IsValid(info.Version)
        THEN [info |-> NoInfo, err |-> "info"]
        ELSE [info |-> info, err |-> "nil"]

PhIdle ==
    /\ phScript = <<>> /\ phPc = "idle" /\ phInfo = NoInfo /\ phErr = "nil"

InitPh ==
    /\ phScript \in Scripts
    /\ phPc = "ready" /\ phInfo = NoInfo /\ phErr = "nil"

\* The handle is made from the script: extractInfo gives its info.
NewHandle ==
    /\ phPc = "ready"
    /\ LET r == extractInfo(phScript)
       IN  /\ phInfo' = r.info
           /\ phErr' = r.err
           /\ phPc' = IF r.err = "nil" THEN "handle" ELSE "failed"
    /\ UNCHANGED phScript

\* ProviderHandle.LoadProvider: the script is compiled and run, its three
\* functions are looked up; the provider carries the handle's info.
LoadProvider ==
    /\ phPc = "handle"
    /\ \E ok \in BOOLEAN :
          /\ phPc' = IF ok THEN "loaded" ELSE "failed"
          /\ phErr' = IF ok THEN "nil" ELSE "load"
    /\ UNCHANGED <<phScript, phInfo>>

-----------------------------------------------------------------------------
(* Anilist.Authorize, Anilist.Logout, Anilist.IsAuthorized *)

\* The credentials a caller passes, and what the token endpoint answers:
\* no answer, a status other than 200, a body that does not decode, or a
\* body with the access_token it carries ("" when the field is missing).
Credentials == [ID : {"", "id"}, Secret : {"", "secret"}, Code : {"", "code"}]
TokenAnswers ==
    {[kind |-> "neterr", token |-> ""], [kind |-> "status", token |-> ""],
     [kind |-> "decode", token |-> ""]}
    \cup {[kind |-> "ok", token |-> t] : t \in {"", "t1", "t2"}}

NoAuthCall == [op |-> "none", err |-> "nil"]

AuIdle ==
    /\ accessToken = "" /\ tokenStore = <<>> /\ auLast = NoAuthCall /\ auOps = 0

\* A new Anilist: no token in memory; the store is empty or has the token
\* of an earlier run.
InitAu ==
    /\ accessToken = ""
    /\ tokenStore \in {<<>>, <<"t1">>}
    /\ auLast = NoAuthCall
    /\ auOps = 0

\* Anilist.Logout: the store's key is deleted; the accessToken field is not
\* touched.
Logout ==
    /\ auOps < MaxAuthOps
    /\ \E ok \in BOOLEAN :
          /\ tokenStore' = IF ok THEN <<>> ELSE tokenStore
          /\ accessToken' = accessToken
          /\ auLast' = [op |-> "Logout", err |-> IF ok THEN "nil" ELSE "store"]
    /\ auOps' = auOps + 1

\* Anilist.Authorize
Authorize ==
    /\ auOps < MaxAuthOps
    /\ \E cr \in Credentials, answer \in TokenAnswers, setOk \in BOOLEAN :
          LET err == IF cr.ID = "" \/ cr.Secret = "" \/ cr.Code = "" THEN "empty"
                     ELSE IF answer.kind # "ok" THEN answer.kind
                     ELSE IF ~setOk THEN "store"
                     ELSE "nil"
          IN  /\ tokenStore' = IF err = "nil" THEN <<answer.token>> ELSE tokenStore
              /\ accessToken' = IF err = "nil" THEN answer.token ELSE accessToken
              /\ auLast' = [op |-> "Authorize", err |-> err]
    /\ auOps' = auOps + 1

\* Anilist.IsAuthorized
IsAuthorized == accessToken # ""

\* The parts of the model that came after the first four, at rest.
RestIdle == RqIdle /\ MdIdle /\ CzIdle /\ RdIdle /\ NcIdle /\ ClIdle /\
    PhIdle /\ AuIdle

-----------------------------------------------------------------------------
(* Client.DownloadPage *)

\* The pageWithImage DownloadPage builds on success.
Downloaded(p) ==
    [id |-> p.id, image |-> IF p.hasImage THEN OwnImage(p) ELSE ProviderImage(p)]

\* The context the page tasks pass to DownloadPage: the closure captures the
\* function's ctx parameter; the group's derived context is bound to _.
TaskCtxDone == ctxDone

\* downloadedPages[i] = downloaded
StoreByFinishOrder(slots, i, done, v) == [slots EXCEPT ![done + 1] = v]
StoreDownloaded(slots, i, done, v) == [slots EXCEPT ![i] = v]

-----------------------------------------------------------------------------
(* Client.DownloadPagesInBatch, one step per goroutine event *)

BatchIdle ==
    /\ pages = <<>> /\ ctxDone = FALSE /\ groupCtxDone = FALSE
    /\ spawned = 0 /\ task = <<>> /\ downloadedPages = <<>>
    /\ groupErr = NoErr /\ batchPc = "idle"
    /\ batchResult = [pages |-> <<>>, err |-> NoErr]
    /\ order = <<>>

\* The call: g, _ := errgroup.WithContext(ctx); make([]PageWithImage, len(pages)).
BatchStart(ps) ==
    /\ pages = ps
    /\ ctxDone = FALSE
    /\ groupCtxDone = FALSE
    /\ spawned = 0
    /\ task = [i \in 1..Len(ps) |-> "none"]
    /\ downloadedPages = [i \in 1..Len(ps) |-> NilPage]
    /\ groupErr = NoErr
    /\ batchPc = "spawning"
    /\ batchResult = [pages |-> <<>>, err |-> NoErr]
    /\ order = <<>>

InitBatch ==
    /\ \E ids \in PageLists, pre \in BOOLEAN : BatchStart(MkPages(ids, pre))
    /\ DlIdle
    /\ AnIdle
    /\ RsIdle
    /\ RestIdle

\* One iteration of the for loop: g.Go(func() error {...}).
Spawn ==
    /\ batchPc = "spawning"
    /\ spawned < Len(pages)
    /\ spawned' = spawned + 1
    /\ task' = [task EXCEPT ![spawned + 1] = "running"]
    /\ UNCHANGED <<pages, ctxDone, groupCtxDone, downloadedPages, groupErr,
                   batchPc, batchResult, order>>

\* The loop is over: the caller blocks in g.Wait().
EnterWait ==
    /\ batchPc = "spawning"
    /\ spawned = Len(pages)
    /\ batchPc' = "waiting"
    /\ UNCHANGED <<pages, ctxDone, groupCtxDone, spawned, task, downloadedPages,
                   groupErr, batchResult, order>>

\* The caller of DownloadPagesInBatch cancels its ctx.
CallerCancel ==
    /\ batchPc \in {"spawning", "waiting"}
    /\ ~ctxDone
    /\ ctxDone' = TRUE
    /\ UNCHANGED <<pages, groupCtxDone, spawned, task, downloadedPages,
                   groupErr, batchPc, batchResult, order>>

\* A task's DownloadPage succeeds and the task stores its page.
TaskOk(i) ==
    /\ i \in 1..Len(pages)
    /\ task[i] = "running"
    /\ task' = [task EXCEPT ![i] = "ok"]
    /\ downloadedPages' =
           StoreDownloaded(downloadedPages, i, Len(order), Downloaded(pages[i]))
    /\ order' = Append(order, i)
    /\ UNCHANGED <<pages, ctxDone, groupCtxDone, spawned, groupErr, batchPc,
                   batchResult>>

\* A task's DownloadPage fails: the provider's error, or ctx.Err() once the
\* context the task holds is done.  errgroup keeps the first error and
\* cancels its derived context.
TaskFail(i) ==
    /\ i \in 1..Len(pages)
    /\ task[i] = "running"
    /\ ~pages[i].hasImage
    /\ \E e \in {PageErr(i)} \cup (IF TaskCtxDone THEN {CtxErr} ELSE {}) :
           groupErr' = IF groupErr = NoErr THEN e ELSE groupErr
    /\ task' = [task EXCEPT ![i] = "err"]
    /\ groupCtxDone' = TRUE
    /\ order' = Append(order, i)
    /\ UNCHANGED <<pages, ctxDone, spawned, downloadedPages, batchPc, batchResult>>

\* A Wait that also returns as soon as the group has an error.
WaitReadyOnError ==
    \/ groupErr # NoErr
    \/ \A i \in 1..Len(pages) : task[i] \in {"ok", "err"}

\* g.Wait() returns once every goroutine has returned (sync.WaitGroup).
WaitReady == \A i \in 1..Len(pages) : task[i] \in {"ok", "err"}

BatchReturn ==
    /\ batchPc = "waiting"
    /\ WaitReady
    /\ batchPc' = "returned"
    /\ groupCtxDone' = TRUE
    /\ batchResult' = IF groupErr # NoErr
                      THEN [pages |-> <<>>, err |-> groupErr]
                      ELSE [pages |-> downloadedPages, err |-> NoErr]
    /\ UNCHANGED <<pages, ctxDone, spawned, task, downloadedPages, groupErr, order>>

NextBatch ==
    \/ Spawn /\ UNCHANGED exceptBatch
    \/ EnterWait /\ UNCHANGED exceptBatch
    \/ CallerCancel /\ UNCHANGED exceptBatch
    \/ (\E i \in PageIds : TaskOk(i)) /\ UNCHANGED exceptBatch
    \/ (\E i \in PageIds : TaskFail(i)) /\ UNCHANGED exceptBatch
    \/ BatchReturn /\ UNCHANGED exceptBatch

SpecBatch == InitBatch /\ [][NextBatch]_vars

-----------------------------------------------------------------------------
(* DownloadChapter: the specification *)

Init == InitDl /\ BatchIdle /\ AnIdle /\ RsIdle /\ RestIdle

Next ==
    \/ Call /\ UNCHANGED exceptDl
    \/ MkdirAll /\ UNCHANGED exceptDl
    \/ CheckExists /\ UNCHANGED exceptDl
    \/ TempDir /\ UNCHANGED exceptDl
    \/ ChapterPages /\ UNCHANGED exceptDl
    \/ DownloadPages /\ UNCHANGED exceptDl
    \/ Encode /\ UNCHANGED exceptDl
    \/ RemoveChapter /\ UNCHANGED exceptDl
    \/ WriteSeriesJson /\ UNCHANGED exceptDl
    \/ DownloadCover /\ UNCHANGED exceptDl
    \/ DownloadBanner /\ UNCHANGED exceptDl
    \/ Rename /\ UNCHANGED exceptDl
    \/ MergeStart /\ UNCHANGED exceptDl
    \/ MergeFile /\ UNCHANGED exceptDl
    \/ ReadChapter /\ UNCHANGED exceptDl

Spec == Init /\ [][Next]_vars

-----------------------------------------------------------------------------
(* FindClosestManga: the specification *)

NextAnilist ==
    \/ FindClosestManga /\ UNCHANGED exceptAn
    \/ LimitReached /\ UNCHANGED exceptAn
    \/ SearchPass /\ UNCHANGED exceptAn
    \/ FinishFind /\ UNCHANGED exceptAn

InitAnilist == InitFind /\ BatchIdle /\ DlIdle /\ RsIdle /\ RestIdle

SpecAnilist == InitAnilist /\ [][NextAnilist]_vars

NextResolver ==
    \/ CallGetByID /\ UNCHANGED exceptRs
    \/ CallSearch /\ UNCHANGED exceptRs
    \/ CallFindClosest /\ UNCHANGED exceptRs
    \/ CallBind /\ UNCHANGED exceptRs
    \/ Evict /\ UNCHANGED exceptRs
    \/ Unlist /\ UNCHANGED exceptRs

InitResolver == InitStores /\ BatchIdle /\ DlIdle /\ AnIdle /\ RestIdle

SpecResolver == InitResolver /\ [][NextResolver]_vars

\* A resolver that has been in use: its stores are what one search that
\* met no fault left in them, or still empty.
InitWarm ==
    /\ rsImpl \in {"anilist", "client"}
    /\ \E q \in RsInputs, searched \in BOOLEAN :
          LET r == Search(rsImpl, EmptyCtx, q, Ids, "none")
          IN  /\ qStore = IF searched THEN r.c.qs ELSE {}
              /\ tStore = {}
              /\ idStore = IF searched THEN r.c.ms ELSE {}
    /\ catalog = Ids
    /\ ops = 0 /\ env = {} /\ faults = 0 /\ log = <<>>

NextBinding ==
    \/ CallBind /\ UNCHANGED exceptRs
    \/ CallFindClosest /\ UNCHANGED exceptRs

InitBinding == InitWarm /\ BatchIdle /\ DlIdle /\ AnIdle /\ RestIdle

SpecBinding == InitBinding /\ [][NextBinding]_vars

\* The first four parts of the model at rest.
CoreIdle == BatchIdle /\ DlIdle /\ AnIdle /\ RsIdle

NextRequest ==
    \/ SendCancelled /\ UNCHANGED exceptRq
    \/ SendAnswered /\ UNCHANGED exceptRq
    \/ SendLimited /\ UNCHANGED exceptRq
    \/ Tick /\ UNCHANGED exceptRq
    \/ Cancel /\ UNCHANGED exceptRq
    \/ Wake /\ UNCHANGED exceptRq

InitRequest == InitRq /\ CoreIdle /\ MdIdle /\ CzIdle /\ RdIdle /\ NcIdle /\
    ClIdle /\ PhIdle /\ AuIdle

SpecRequest == InitRequest /\ [][NextRequest]_vars

NextMetadata ==
    \/ GetSeriesJson /\ UNCHANGED exceptMd
    \/ GetComicInfoXml /\ UNCHANGED exceptMd
    \/ MdNext /\ UNCHANGED exceptMd

InitMetadata == InitMd /\ CoreIdle /\ RqIdle /\ CzIdle /\ RdIdle /\ NcIdle /\
    ClIdle /\ PhIdle /\ AuIdle

SpecMetadata == InitMetadata /\ [][NextMetadata]_vars

NextCbz ==
    \/ SavePage /\ UNCHANGED exceptCz
    \/ SaveInfo /\ UNCHANGED exceptCz
    \/ SaveFails /\ UNCHANGED exceptCz

InitCbz == InitCz /\ CoreIdle /\ RqIdle /\ MdIdle /\ RdIdle /\ NcIdle /\
    ClIdle /\ PhIdle /\ AuIdle

SpecCbz == InitCbz /\ [][NextCbz]_vars

NextRead ==
    \/ readChapter /\ UNCHANGED exceptRd
    \/ RdNext /\ UNCHANGED exceptRd

InitRead == InitRd /\ CoreIdle /\ RqIdle /\ MdIdle /\ CzIdle /\ NcIdle /\
    ClIdle /\ PhIdle /\ AuIdle

SpecRead == InitRead /\ [][NextRead]_vars

NextNewClient ==
    \/ NewClientValidate /\ UNCHANGED exceptNc
    \/ NewClientLoad /\ UNCHANGED exceptNc
    \/ NcNext /\ UNCHANGED exceptNc

InitNewClient == InitNc /\ CoreIdle /\ RqIdle /\ MdIdle /\ CzIdle /\
    RdIdle /\ ClIdle /\ PhIdle /\ AuIdle

SpecNewClient == InitNewClient /\ [][NextNewClient]_vars

NextClosest ==
    \/ ClosestFind /\ UNCHANGED exceptCl
    \/ ClosestNext /\ UNCHANGED exceptCl

InitClosest == InitCl /\ CoreIdle /\ RqIdle /\ MdIdle /\ CzIdle /\ RdIdle /\
    NcIdle /\ PhIdle /\ AuIdle

SpecClosest == InitClosest /\ [][NextClosest]_vars

NextHandle ==
    \/ NewHandle /\ UNCHANGED exceptPh
    \/ LoadProvider /\ UNCHANGED exceptPh

InitHandle == InitPh /\ CoreIdle /\ RqIdle /\ MdIdle /\ CzIdle /\ RdIdle /\
    NcIdle /\ ClIdle /\ AuIdle

SpecHandle == InitHandle /\ [][NextHandle]_vars

NextAuth ==
    \/ Logout /\ UNCHANGED exceptAu
    \/ Authorize /\ UNCHANGED exceptAu

InitAuth == InitAu /\ CoreIdle /\ RqIdle /\ MdIdle /\ CzIdle /\ RdIdle /\ NcIdle /\ ClIdle /\ PhIdle

SpecAuth == InitAuth /\ [][NextAuth]_vars

-----------------------------------------------------------------------------
(* Properties of DownloadChapter *)

\* The files of a filesystem the chapter and its auxiliary artifacts live in
\* (directories and the temporary directory left aside).
DestFiles(f) ==
    [chapter |-> f.chapter, series |-> f.series, cover |-> f.cover,
     banner |-> f.banner]

\* The steps before the chapter is published (Rename, mergeDirectories).
BeforePublish ==
    {"mkdir", "exists", "tempdir", "pages", "batch", "encode", "remove",
     "series", "cover", "banner"}

\* A chapter artifact that is partly written: a truncated file, or a
\* directory holding some of the running call's pages and not the others.
PartlyWritten(art) ==
    \/ art.kind = "file" /\ art.stamp = "partial"
    \/ /\ art.kind = "dir"
       /\ \/ \E i \in FileIds : art.files[i] = "partial"
          \/ /\ \E i \in FileIds : art.files[i] = Stamp(callNo)
             /\ \E j \in 1..nPages : art.files[j] # Stamp(callNo)

\* The destination holds a chapter the running call wrote.
PublishedNow ==
    \/ fs.chapter.kind = "file" /\ fs.chapter.stamp = Stamp(callNo)
    \/ /\ fs.chapter.kind = "dir"
       /\ \E i \in FileIds : fs.chapter.files[i] = Stamp(callNo)

\* The errors an auxiliary failure is reported with.
AuxErrors ==
    {AuxErr(k) : k \in AuxKinds} \cup {MetadataError(k) : k \in AuxKinds}
    \cup {StepErr("comicinfo")}

\* C1: during DownloadChapter the chapter and auxiliary files of the
\* destination filesystem stay as they were until the page downloads, the
\* encoding and every requested auxiliary artifact have succeeded, and the
\* destination never holds a partly written primary artifact.
C1_DestinationUntouchedUntilPublish ==
    /\ pc \in BeforePublish => DestFiles(fs) = DestFiles(fs0)
    /\ ~PartlyWritten(fs.chapter)

\* C2: when the download of some page fails, DownloadChapter returns the
\* error of a failed page with an empty path, and the destination's chapter
\* artifact and temporary chapter path are as before the call.
C2_PageFailureReturnsItsError ==
    (pc = "done" /\ pageFailed # {}) =>
        /\ res.err \in {PageErr(k) : k \in pageFailed}
        /\ res.path = NoPath
        /\ fs.chapter = fs0.chapter
        /\ fs.temp = NoArtifact
        /\ ~PublishedNow

C2_Witness ==
    /\ pc = "done"
    /\ nPages >= 2
    /\ pageFailed # {}
    /\ pageFailed # 1..nPages
    /\ res.err \in {PageErr(k) : k \in pageFailed}

\* C5: every DownloadChapter call returns either a non-empty path with a nil
\* error or an empty path with a non-nil error, never a path with an error.
C5_PathXorError ==
    pc = "done" =>
        \/ res.path # NoPath /\ res.err = NoErr
        \/ res.path = NoPath /\ res.err # NoErr

\* C6: a failed auxiliary artifact (series metadata, cover, banner,
\* ComicInfo) under Strict makes DownloadChapter return an error with no
\* path and publish nothing; without Strict the failure is never the
\* returned error, and a call that returns nil returns the chapter path with
\* the chapter it downloaded published (or, on the skip path, the existing
\* chapter left in place).
C6_StrictDecidesAuxFailure ==
    (pc = "done" /\ auxFailed # {}) =>
        IF opts.strict
        THEN res.err # NoErr /\ res.path = NoPath /\ ~PublishedNow
        ELSE /\ res.err \notin AuxErrors
             /\ res.err = NoErr =>
                   /\ res.path = ChapterPath(opts)
                   /\ (fetched > 0 /\ ~encFailed) => PublishedNow
                   /\ (chapterExists /\ opts.skip) => fs.chapter = fs0.chapter

C6_Witness ==
    /\ pc = "done"
    /\ ~opts.strict
    /\ auxFailed # {}
    /\ "cover" \in auxFailed \/ "series" \in auxFailed
    /\ res.err = NoErr
    /\ res.path = ChapterPath(opts)
    /\ fetched > 0
    /\ PublishedNow

\* C7: when the chapter exists and SkipIfExists is set, a call that returns
\* nil fetched no page and went through the generation of every requested
\* auxiliary artifact that was missing.
C7_SkipStillGeneratesAux ==
    (pc = "done" /\ chapterExists /\ opts.skip /\ res.err = NoErr) =>
        /\ fetched = 0
        /\ \A k \in Requested(opts) :
              AuxExists(fs0, k) \/ k \in looked \/ k \in auxFailed

\* C8: the second of two DownloadChapter calls with SkipIfExists, when it
\* returns nil, fetched no page and returns exactly the path of the first.
C8_SecondCallSamePath ==
    (pc = "done" /\ callNo = 2 /\ res.err = NoErr) =>
        /\ fetched = 0
        /\ res.path = firstCall.path

\* C9: an auxiliary artifact that exists at the destination when the call
\* starts gets no lookup or download, and its destination file stays as it
\* was, whatever the staging filesystem holds.
C9_ExistingAuxSkipped ==
    \A k \in AuxKinds :
        AuxExists(fs0, k) => k \notin looked /\ fs[k] = fs0[k]

C9_Witness ==
    /\ pc = "done"
    /\ res.err = NoErr
    /\ fetched > 0
    /\ \E k \in Requested(opts) : AuxExists(fs0, k) /\ fs[k] = "old"
    /\ \E k \in Requested(opts) : k \in looked /\ fs[k] = Stamp(callNo)

-----------------------------------------------------------------------------
(* Properties of DownloadPagesInBatch *)

\* C3: once a page download has failed, the context the other page tasks
\* hold is cancelled and the waiting caller can return at once.
C3_FirstErrorCancelsAndReturns ==
    groupErr # NoErr =>
        /\ TaskCtxDone
        /\ batchPc = "waiting" => ENABLED BatchReturn

\* C4: when DownloadPagesInBatch returns without error, the slice has the
\* length of pages and element i is the image of pages[i], in whatever order
\* the tasks finished.
C4_ResultKeepsIndexOrder ==
    (batchPc = "returned" /\ batchResult.err = NoErr) =>
        /\ Len(batchResult.pages) = Len(pages)
        /\ \A i \in 1..Len(pages) :
              /\ batchResult.pages[i].id = pages[i].id
              /\ batchResult.pages[i].image =
                     IF pages[i].hasImage THEN OwnImage(pages[i])
                     ELSE ProviderImage(pages[i])

C4_Witness ==
    /\ batchPc = "returned"
    /\ batchResult.err = NoErr
    /\ Len(pages) >= 2
    /\ \E a \in 1..Len(order), b \in 1..Len(order) : a < b /\ order[a] > order[b]
    /\ batchResult.pages[1].id = pages[1].id

-----------------------------------------------------------------------------
(* Properties of FindClosestManga *)

\* C10: for a non-empty title, FindClosestManga passes at most 3 strings to
\* the search function and none of them is the empty string.
C10_SearchBoundedAndNeverEmpty ==
    title # <<>> =>
        /\ Len(queries) <= FindLimit
        /\ \A i \in 1..Len(queries) : queries[i] # <<>>

\* The loop is over and every search it made came back empty.
Exhausted ==
    /\ fcPc \in {"finish", "done"}
    /\ queries # <<>>
    /\ \A i \in 1..Len(results) : results[i] = "none"

\* The longest prefix a cut by step characters leaves, never less than one
\* character.
CutByStep(str) ==
    SubSeq(str, 1, IF Len(str) > FindStep THEN Len(str) - FindStep ELSE 1)

\* C11 as stated: every search but the first is made with the string of
\* the search before it, more than one character long, cut by step (3)
\* characters and never to less than one character.
C11_NextQueryCutByStep ==
    \A i \in 1..(Len(queries) - 1) :
        /\ Len(queries[i]) > 1
        /\ queries[i + 1] = CutByStep(queries[i])

\* C11, amended: after a search with no result the next search string is
\* the current one without its last 3 characters when it has more than 3,
\* without its last character when it has 2 or 3; the loop gives up only on
\* a string of at most 1 character or after 3 searches; at most 3 searches
\* are made and a match found by the last of them is the loop's result.
C11_TruncationLoop ==
    /\ Len(queries) <= FindLimit
    /\ Len(results) = Len(queries)
    /\ \A i \in 1..(Len(queries) - 1) :
          /\ results[i] = "none"
          /\ Len(queries[i]) > 1
          /\ queries[i + 1] =
                 SubSeq(queries[i], 1,
                        IF Len(queries[i]) > FindStep
                        THEN Len(queries[i]) - FindStep
                        ELSE Len(queries[i]) - 1)
    /\ Exhausted =>
          \/ Len(queries) = FindLimit
          \/ Len(queries[Len(queries)]) <= 1
    /\ (fcPc \in {"finish", "done"} /\ queries # <<>>
           /\ results[Len(results)] = "close") => fcInner = "found"

C11_Witness ==
    /\ fcPc = "done"
    /\ fcRes = "manga"
    /\ results = <<"none", "none", "close">>
    /\ Len(queries[1]) > FindStep
    /\ Len(queries[2]) = Len(queries[1]) - FindStep
    /\ Len(queries[2]) <= FindStep
    /\ Len(queries[3]) = Len(queries[2]) - 1

\* C12: when the loop is exhausted without any search result,
\* FindClosestManga returns found=false with a nil error.
C12_ExhaustedIsSoftNotFound ==
    (Exhausted /\ fcPc = "done") => fcRes = "notfound"

\* ---- the resolver's history ----

\* The stores as the i-th step of the history left them.
TsAfter(i) == IF i = Len(log) THEN tStore ELSE log[i + 1].ts0
MsAfter(i) == IF i = Len(log) THEN idStore ELSE log[i + 1].ms0
QsAfter(i) == IF i = Len(log) THEN qStore ELSE log[i + 1].qs0

\* The i-th step of the history is a call of op that returned a nil error.
Succeeded(i, op) == log[i].op = op /\ log[i].err = "nil"

\* C13: when Anilist.FindClosestManga(title) returns a manga, the title
\* store binds unifyString(title) to that manga's id, and a call that does
\* not return a manga writes nothing to the title store; the FindClosestManga
\* of the same title that follows at once returns the same manga without a
\* search and without a request.
C13_ResolvedTitleIsCached ==
    rsImpl = "anilist" =>
        \A i \in 1..Len(log) :
            log[i].op = "FindClosest" =>
                IF log[i].err = "nil" /\ log[i].ok
                THEN /\ Has(TsAfter(i), unifyString(log[i].arg))
                     /\ Val(TsAfter(i), unifyString(log[i].arg)) = log[i].out[1].ID
                     /\ (/\ i < Len(log)
                         /\ log[i + 1].op = "FindClosest"
                         /\ unifyString(log[i + 1].arg) = unifyString(log[i].arg)
                         /\ log[i + 1].fault # "get")
                        => /\ log[i + 1].err = "nil" /\ log[i + 1].ok
                           /\ log[i + 1].out = log[i].out
                           /\ log[i + 1].srch = 0
                           /\ log[i + 1].net = 0
                ELSE log[i].tw = {} /\ TsAfter(i) = log[i].ts0

\* A title resolved by a search after one truncation, then asked again
\* with other spacing and answered from the stores.
C13_Witness ==
    /\ rsImpl = "anilist"
    /\ Len(log) = 2
    /\ Succeeded(1, "FindClosest") /\ log[1].ok
    /\ log[1].srch > 0 /\ log[1].net > 0
    /\ log[1].ts0 = {}
    /\ Succeeded(2, "FindClosest") /\ log[2].ok
    /\ log[2].arg # log[1].arg
    /\ unifyString(log[2].arg) = unifyString(log[1].arg)
    /\ log[2].out = log[1].out
    /\ log[2].net = 0 /\ log[2].srch = 0

\* C14: whenever a call writes title -> id into the title store, the id
\* store holds a manga for that id or Anilist has one to fetch.
C14_TitleWrittenAfterRecord ==
    \A i \in 1..Len(log) : \A w \in log[i].tw : w.ok

\* The i-th step is a FindClosestManga that started with a title entry
\* whose id had no manga in the id store.
Dangling(i) ==
    /\ log[i].op = "FindClosest"
    /\ Has(log[i].ts0, unifyString(log[i].arg))
    /\ ~Has(log[i].ms0, Val(log[i].ts0, unifyString(log[i].arg)))

\* The same call from the same stores with the title entry taken away.
AsMiss(i) ==
    FindClosest(rsImpl,
                [qs |-> log[i].qs0,
                 ts |-> Del(log[i].ts0, unifyString(log[i].arg)),
                 ms |-> log[i].ms0, net |-> 0, srch |-> 0, tw |-> {}],
                log[i].arg, log[i].cat0, log[i].fault)

\* C15: a FindClosestManga that finds title -> id in the title store but no
\* manga for id in the id store goes on as if the title store had no entry:
\* it runs the search loop and returns what the call without the entry
\* would return, so no error comes from the dangling entry.
C15_DanglingTitleIsMiss ==
    \A i \in 1..Len(log) :
        Dangling(i) =>
            /\ log[i].out = AsMiss(i).out
            /\ log[i].ok = AsMiss(i).ok
            /\ log[i].err = AsMiss(i).err
            /\ log[i].net = AsMiss(i).c.net
            /\ log[i].srch = AsMiss(i).c.srch
            /\ (log[i].fault # "get" \/ rsImpl = "client") => log[i].srch > 0

\* A title bound to an id without a manga, then resolved by a search.
C15_Witness ==
    /\ Len(log) = 2
    /\ log[1].op = "Bind" /\ log[1].err = "nil"
    /\ Dangling(2)
    /\ log[2].fault = "none"
    /\ log[2].srch > 0
    /\ log[2].err = "nil" /\ log[2].ok
    /\ Val(tStore, unifyString(log[2].arg)) = log[2].out[1].ID
    /\ Val(tStore, unifyString(log[2].arg)) # Val(log[2].ts0, unifyString(log[2].arg))

\* The i-th step is a Search that found its query in the query store with
\* at least one id.
QueryHit(i) ==
    /\ log[i].op = "Search"
    /\ log[i].fault = "none"
    /\ Has(log[i].qs0, unifyString(log[i].arg))
    /\ Val(log[i].qs0, unifyString(log[i].arg)) # <<>>

\* The cached ids of the i-th step's query that still resolve: the id
\* store has the manga, or Anilist has it.
LiveIds(i) ==
    SelectSeq(Val(log[i].qs0, unifyString(log[i].arg)),
              LAMBDA id : Has(log[i].ms0, id) \/ id \in log[i].cat0)

\* C16: a Search whose query is in the query store returns, without error,
\* the mangas of the cached ids that still resolve, in the cached order; if
\* none resolves it returns what a new search on Anilist returns.
C16_StaleIdsDropped ==
    \A i \in 1..Len(log) :
        QueryHit(i) =>
            /\ log[i].err = "nil"
            /\ IF LiveIds(i) # <<>>
               THEN IdsOf(log[i].out) = LiveIds(i)
               ELSE /\ log[i].out = NetSearch(unifyString(log[i].arg), log[i].cat0, MaxIds)
                    /\ log[i].net > 0

\* Steps i and i + 1 are Searches of the same normalized query, the first
\* one answered by Anilist without error, the second one without a fault.
SearchedTwice(i) ==
    /\ i < Len(log)
    /\ Succeeded(i, "Search") /\ log[i].net > 0
    /\ log[i + 1].op = "Search" /\ log[i + 1].fault = "none"
    /\ unifyString(log[i + 1].arg) = unifyString(log[i].arg)

\* C17: after a Search that asked Anilist and got no manga, the next Search
\* of the same query returns the empty list without a request.
C17_EmptyResultIsCached ==
    \A i \in 1..Len(log) :
        (SearchedTwice(i) /\ log[i].out = <<>>) =>
            /\ log[i + 1].err = "nil"
            /\ log[i + 1].out = <<>>
            /\ log[i + 1].net = 0

FreshSearch(i) ==
    /\ Succeeded(i, "Search")
    /\ log[i].net > 0
    /\ rsImpl = "client" \/ ~Has(log[i].qs0, unifyString(log[i].arg))
    /\ log[i].fault # "set"

C20_GetByIDTwiceOneRequest ==
    \A i \in 1..(Len(log) - 1) :
        (/\ Succeeded(i, "GetByID") /\ Succeeded(i + 1, "GetByID")
         /\ log[i + 1].arg = log[i].arg)
        => /\ log[i + 1].out = log[i].out
           /\ log[i + 1].net = 0
           /\ log[i].net = (IF Has(log[i].ms0, log[i].arg) THEN 0 ELSE 1)

\* The id fetched from Anilist by the first call and answered by the id
\* store in the second.
C20_Witness ==
    /\ Len(log) = 2
    /\ Succeeded(1, "GetByID") /\ Succeeded(2, "GetByID")
    /\ log[1].arg = log[2].arg
    /\ log[1].ms0 = {}
    /\ log[1].net = 1 /\ log[2].net = 0
    /\ log[1].out = <<Media(log[1].arg)>>
    /\ log[2].out = log[1].out

\* C21: a GetByID for an id Anilist has no manga for (and the id store
\* neither), sent and answered without a failure, returns found = false
\* with a nil error and leaves the id store as it was.
C21_UnknownIdIsSoftNotFound ==
    \A i \in 1..Len(log) :
        (/\ log[i].op = "GetByID" /\ log[i].fault = "none"
         /\ log[i].arg \notin log[i].cat0
         /\ ~Has(log[i].ms0, log[i].arg))
        => /\ log[i].err = "nil"
           /\ ~log[i].ok
           /\ MsAfter(i) = log[i].ms0

\* C22: a Search, FindClosestManga or GetByID whose store Gets fail does
\* not return the store's error: it goes on as after a miss and asks
\* Anilist.
C22_GetErrorIsMiss ==
    \A i \in 1..Len(log) :
        (log[i].op \in {"Search", "FindClosest", "GetByID"} /\ log[i].fault = "get")
        => /\ log[i].err # "store"
           /\ log[i].net > 0

\* retryAfter = "90": the seconds for a 429 that has no header.
DefaultSeconds == 90

\* C23: after a 429 response the call waits the number of seconds its
\* header gives, and 90 seconds when the header is absent or is not a
\* number; such a header does not end the call with an error.
C23_WaitFromHeaderOrDefault ==
    rqLast.status = "429" =>
        /\ rqRes # "atoi"
        /\ rqPc = "wait" =>
              rqSeconds = (IF AtoiOk(rqLast.header) THEN Atoi(rqLast.header)
                           ELSE DefaultSeconds)

\* C24: a call that returned while ctx was not cancelled returns what the
\* last response, which is not a 429, calls for, and every 429 before it
\* was followed by one more sending of the request.
C24_RetriedUntilAnswered ==
    (rqPc = "done" /\ ~rqCtxDone) =>
        /\ rqLast.status # "429"
        /\ rqSent = rqSeen429 + 1
        /\ rqRes = (CASE rqLast.status = "200" -> "data"
                      [] rqLast.status = "500" -> "status"
                      [] OTHER -> "transport")

\* C25: when ctx is cancelled while the call sleeps after a 429, the
\* select takes the ctx case at once: no further second of the sleep
\* passes, the request is not sent again, and the call returns ctx.Err().
C25_CancelEndsTheWait ==
    rqCancel # <<>> =>
        /\ rqLeft = rqCancel.left
        /\ rqSent = rqCancel.sent
        /\ \/ rqPc = "wait" /\ rqWoken = "ctx"
           \/ rqPc = "done" /\ rqRes = "ctx"

\* Cancelled in the middle of a sleep, with seconds passed and seconds
\* left, and returned.
C25_Witness ==
    /\ rqCancel # <<>>
    /\ rqCancel.left > 0
    /\ rqCancel.left < rqSeconds
    /\ rqPc = "done"
    /\ rqRes = "ctx"
    /\ rqSent = 1

\* The title the specification keys the Anilist lookup on.
PreferredTitle(manga) ==
    IF manga.AnilistSearch # "" THEN manga.AnilistSearch ELSE manga.Title

\* C26: a record comes from the provider whenever the provider supplies
\* it, and FindClosestManga is called only when it does not, then once and
\* with AnilistSearch if that is not empty, with Title otherwise.
C26_ProviderFirstThenPreferredTitle ==
    mdPc = "done" =>
        IF mdManga.supplies
        THEN mdKeys = <<>> /\ (~mdErr => mdFrom = "provider")
        ELSE mdKeys = <<PreferredTitle(mdManga)>> /\ (~mdErr => mdFrom = "anilist")

\* Re-reading the archive: the entries that are not the metadata entry,
\* the metadata entries, the number an entry's name starts with, and the
\* record an XML document decodes to (a missing element is zero).
PageEntries(zip) ==
    LET IsPage(entry) == entry.Name # filenameComicInfoXML
    IN SelectSeq(zip, IsPage)

InfoEntries(zip) ==
    LET IsInfo(entry) == entry.Name = filenameComicInfoXML
    IN SelectSeq(zip, IsInfo)

EntryNumber(entry) == Atoi(SubSeq(entry.Name, 1, Len(entry.Name) - 1))

Unmarshal(doc) ==
    [field \in {"Count", "PageCount"} |->
        IF \E el \in doc : el[1] = field
        THEN Atoi((CHOOSE el \in doc : el[1] = field)[2])
        ELSE 0]

\* C27: the archive SaveCBZ wrote for M pages holds, in order, M entries
\* numbered 1..M with the pages' images and extensions, and exactly one
\* metadata entry, whose PageCount reads back as M whatever the caller's
\* record said.
C27_ArchiveRoundTrip ==
    czPc = "done" =>
        LET entries == PageEntries(czZip)
            infos == InfoEntries(czZip)
            M == Len(czPages)
        IN /\ Len(entries) = M
           /\ \A k \in 1..M :
                 /\ AtoiOk(SubSeq(entries[k].Name, 1, Len(entries[k].Name) - 1))
                 /\ EntryNumber(entries[k]) = k
                 /\ entries[k].Name[Len(entries[k].Name)] = czPages[k]
                 /\ entries[k].Body = [page |-> k]
           /\ Len(infos) = 1
           /\ Unmarshal(infos[1].Body).PageCount = M
           /\ Unmarshal(infos[1].Body).Count = czInfo.Count

\* The most pages, saved with a record whose own count is another number.
C27_Witness ==
    /\ czPc = "done"
    /\ Len(czPages) = MaxCbzPages
    /\ czInfo.Count # 0
    /\ czInfo.Count # Len(czPages)
    /\ Len(czZip) = MaxCbzPages + 1

\* No pages at all: the PageCount element is left out of the document.
C27_WitnessEmpty ==
    /\ czPc = "done"
    /\ czPages = <<>>
    /\ czInfo.Count # 0
    /\ \A el \in czZip[1].Body : el[1] # "PageCount"

\* The three conditions the specification names.
ReadConditions == rdIn.opens /\ rdIn.authorized /\ ~rdIn.incognito

\* C28 as stated: progress is reported if and only if the artifact was
\* opened, the Anilist client is authorized and the read is not incognito.
C28_ReportedIffConditions ==
    rdPc = "done" => (rdReported # <<>> <=> ReadConditions)

\* C28: the manga is looked up on Anilist if and only if the artifact was
\* opened, the client is authorized and the read is not incognito; progress
\* is reported only then, exactly when the lookup found the manga, once, and
\* with the integer part of the chapter number.
C28_ReportedIffConditionsAndFound ==
    rdPc = "done" =>
        /\ rdLooked <=> ReadConditions
        /\ rdReported # <<>> <=> (ReadConditions /\ rdIn.found = "manga")
        /\ rdReported # <<>> =>
              /\ Len(rdReported) = 1
              /\ rdReported[1] * 10 <= rdIn.tenths + 9
              /\ rdReported[1] * 10 >= rdIn.tenths - 9
              /\ rdIn.tenths >= 0 => rdReported[1] * 10 <= rdIn.tenths
              /\ rdIn.tenths <= 0 => rdReported[1] * 10 >= rdIn.tenths

\* Chapter 1.5 was opened and reported as 1.
C28_Witness ==
    /\ rdPc = "done"
    /\ ReadConditions
    /\ rdIn.tenths = 15
    /\ rdReported = <<1>>

\* What the specification asks of a descriptor, on the versions of the
\* model: a name, and "v" with three numbers (or, as semver.IsValid also
\* takes it, with one or two).
WellFormed(info) ==
    /\ info.Name # ""
    /\ info.Version \in {<<"v", "1">>, <<"v", "1", ".", "2">>,
                         <<"v", "1", ".", "2", ".", "0">>}

\* C29: the descriptor is read and validated before anything else; with a
\* descriptor that has no name or no valid version NewClient returns the
\* validation error, loader.Load is never called and the network is not
\* used; Load is called only after the validation, on a valid descriptor.
C29_ValidatedBeforeLoad ==
    /\ ncCalls # <<>> => ncCalls[1] = "Info"
    /\ \A i \in 1..Len(ncCalls) : ncCalls[i] = "Load" => (i = 2 /\ WellFormed(ncInfo))
    /\ (ncPc = "done" /\ ~WellFormed(ncInfo)) =>
          /\ ncRes = "invalid"
          /\ ncCalls = <<"Info">>
          /\ ~ncNet

\* A named provider whose version lacks the "v" was turned down.
C29_Witness ==
    /\ ncPc = "done"
    /\ ncInfo.Name = "mangadex"
    /\ ncInfo.Version = <<"1", ".", "2", ".", "0">>
    /\ ncRes = "invalid"
    /\ ncCalls = <<"Info">>

\* mergeDirectories of the call has returned nil: the staged snapshot went
\* on to readChapter or returned (nil, or readChapter's error).
MergeReturnedNil ==
    /\ impl = "staged"
    /\ \/ pc = "read"
       \/ pc = "done" /\ res.err.kind \in {"nil", "read"}

\* The files mergeDirectories is through with while it runs.
MergedSoFar ==
    LET staged == StagedFiles(tmp)
    IN {staged[i] : i \in 1..(Len(staged) - Len(mergeQueue))}

\* C30: when mergeDirectories has returned nil, every file of the staged
\* tree is in the destination at the same path with the staged content,
\* whatever the destination held there before; while it runs this is so
\* for every file it is through with.
C30_MergedEqualsStaged ==
    /\ MergeReturnedNil =>
          \A i \in 1..Len(StagedFiles(tmp)) :
              LET key == StagedFiles(tmp)[i]
              IN /\ FileAt(tmp, key) # "absent"
                 /\ FileAt(fs, key) = FileAt(tmp, key)
    /\ (impl = "staged" /\ pc = "merging") =>
          \A key \in MergedSoFar : FileAt(fs, key) = FileAt(tmp, key)

\* A chapter of several page files and an auxiliary file were merged over
\* a destination that already had the chapter's pages.
C30_Witness ==
    /\ MergeReturnedNil
    /\ pc = "done"
    /\ res.err = NoErr
    /\ Len(StagedFiles(tmp)) > MaxChapterPages
    /\ \E i \in FileIds :
          /\ fs0.chapter.files[i] = "old"
          /\ tmp.chapter.files[i] \in {"new1", "new2"}
          /\ fs.chapter.files[i] = tmp.chapter.files[i]

\* The searches of the call that had results: on stores that started
\* empty, the entries of the query store with a non-empty list.
ClHits == {en \in clRet.c.qs : en.v # <<>>}

\* C31: when a search of FindClosestManga had results, the manga returned
\* is one of them and none of them has a title (String()) closer, in edit
\* distance, to the normalized title FindClosestManga was called with.
C31_ClosestToTitlePassed ==
    (clPc = "done" /\ ClHits # {}) =>
        /\ clRet.err = "nil" /\ clRet.ok
        /\ \A en \in ClHits :
              /\ \E i \in 1..Len(en.v) : en.v[i] = clRet.out[1].ID
              /\ \A i \in 1..Len(en.v) :
                    Distance(unifyString(clIn.title), unifyString(clRet.out[1].Title))
                        <= Distance(unifyString(clIn.title),
                                    unifyString(String(TitleOf(en.v[i]))))

\* What holds instead: none of the results is closer to the query of the
\* search that had them, the title cut down to what found something.
C31_ClosestToQueryOfSearch ==
    (clPc = "done" /\ ClHits # {}) =>
        /\ clRet.err = "nil" /\ clRet.ok
        /\ \A en \in ClHits :
              /\ \E i \in 1..Len(en.v) : en.v[i] = clRet.out[1].ID
              /\ \A i \in 1..Len(en.v) :
                    Distance(en.k, unifyString(clRet.out[1].Title))
                        <= Distance(en.k, unifyString(String(TitleOf(en.v[i]))))

\* The script declares the three fields in its header, and nothing else.
Declares(name, description, version) ==
    /\ name # <<>> /\ description # <<>> /\ version # <<>>
    /\ \E comment \in BOOLEAN :
          phScript = ScriptOf(name, description, version, FALSE, comment)

\* C32: a script whose header declares a name, a description and a version
\* (as the test's: Name, Description, 0.1.0) gets its handle, and the
\* provider loaded through it reports exactly what the header declares.
C32_DeclaredInfoComesBack ==
    \A version \in {<<"0", ".", "1", ".", "0">>, <<"v", "1", ".", "2", ".", "0">>} :
        Declares(<<"Name">>, <<"Description">>, version) =>
            /\ phErr \in {"nil", "load"}
            /\ phPc \in {"handle", "loaded"} =>
                  phInfo = [Name |-> <<"Name">>, Description |-> <<"Description">>,
                            Version |-> version]

\* The same for the versions that start with "v".
C32_DeclaredInfoComesBackWithV ==
    Declares(<<"Name">>, <<"Description">>, <<"v", "1", ".", "2", ".", "0">>) =>
        /\ phErr \in {"nil", "load"}
        /\ phPc \in {"handle", "loaded"} =>
              phInfo = [Name |-> <<"Name">>, Description |-> <<"Description">>,
                        Version |-> <<"v", "1", ".", "2", ".", "0">>]

\* C33: a call with SkipIfExists off for a chapter the destination already
\* has, which returns an error of the download, the encoding, a Strict
\* auxiliary artifact, the removal or the final move or merge, leaves the
\* old artifact in the destination as it was.
C33_OldArtifactSurvivesFailure ==
    (/\ pc = "done"
     /\ ~opts.skip
     /\ ArtifactExists(fs0)
     /\ res.err # NoErr
     /\ res.err.kind # "read") =>
        fs.chapter = fs0.chapter

\* C34: when the encoder of the chapter's format has returned an error,
\* SaveCBZ like SavePDF and SaveImages, downloadChapter returns it and the
\* call of DownloadChapter has ended with that error, Strict or not.
C34_EncoderErrorIsReturned ==
    encFailed => (pc = "done" /\ res.err = StepErr("encode"))

\* C35: when DownloadPagesInBatch has returned, with the pages or with an
\* error, every task it started has returned, and from then on nothing is
\* written into the slice the tasks share.
C35_NoTaskOutlivesTheCall ==
    /\ [](batchPc = "returned" =>
            /\ spawned = Len(pages)
            /\ \A i \in 1..Len(pages) : task[i] \in {"ok", "err"})
    /\ [][batchPc = "returned" =>
            /\ downloadedPages' = downloadedPages
            /\ task' = task]_vars

\* The call returned the error of the task that ended first; the other
\* tasks ended after it, one of them with its page stored.
C35_Witness ==
    /\ batchPc = "returned"
    /\ batchResult.err # NoErr
    /\ Len(pages) >= 2
    /\ Len(order) = Len(pages)
    /\ task[order[1]] = "err"
    /\ task[order[Len(order)]] = "ok"

\* C36: a call of DownloadChapter that returns a nil error returns the
\* chapter's destination path, options.Directory joined with the chapter's
\* filename, and the destination has an artifact at that path.
C36_NilMeansArtifactAtReturnedPath ==
    (pc = "done" /\ res.err = NoErr) =>
        /\ res.path = ChapterPath(opts)
        /\ ArtifactExists(fs)

\* Every path a file of the model's trees can be at.
AllFileKeys ==
    {FileKey("chapter", 0), FileKey("banner", 0), FileKey("cover", 0),
     FileKey("series", 0)} \cup {FileKey("page", i) : i \in FileIds}

StagedKeys == {StagedFiles(tmp)[i] : i \in 1..Len(StagedFiles(tmp))}

\* C37: in the staged snapshot, where mergeDirectories is all that writes
\* to the destination, every destination file with no counterpart in the
\* staged tree is as it was when the call started, before, during and after
\* the merge, failed or not; and the merge leaves the staged tree as it is.
C37_MergeTouchesOnlyStagedPaths ==
    /\ [](impl = "staged" =>
            \A key \in AllFileKeys \ StagedKeys : FileAt(fs, key) = FileAt(fs0, key))
    /\ [][(impl = "staged" /\ pc \in {"merge", "merging"}) => tmp' = tmp]_vars

\* A one-page chapter was merged into a destination that had two old pages
\* of it: the first is the new one, the second is still there.
C37_Witness ==
    /\ MergeReturnedNil
    /\ pc = "done"
    /\ FileKey("page", 1) \in StagedKeys
    /\ FileKey("page", 2) \notin StagedKeys
    /\ fs.chapter.files[1] = tmp.chapter.files[1]
    /\ fs.chapter.files[1] # "old"
    /\ fs0.chapter.files[2] = "old"
    /\ fs.chapter.files[2] = "old"

\* C38: after a Logout that returned nil IsAuthorized is false, and it
\* stays false through failed calls until an Authorize succeeds.
C38_LoggedOutMeansNotAuthorized ==
    /\ [](auLast = [op |-> "Logout", err |-> "nil"] => ~IsAuthorized)
    /\ [][(~IsAuthorized /\ IsAuthorized') =>
            auLast' = [op |-> "Authorize", err |-> "nil"]]_vars

\* The part that holds: IsAuthorized becomes true only by an Authorize that
\* succeeded.
C38_AuthorizedOnlyByAuthorize ==
    [][(~IsAuthorized /\ IsAuthorized') =>
          auLast' = [op |-> "Authorize", err |-> "nil"]]_vars

\* The i-th step is a BindTitleWithID that returned nil for an id the id
\* store holds, and the step after it is a FindClosestManga of the same
\* title, as passed, that meets no store fault and still finds the id.
BoundThenAsked(i) ==
    /\ i < Len(log)
    /\ log[i].op = "Bind" /\ log[i].err = "nil"
    /\ Has(log[i].ms0, log[i].arg[2])
    /\ log[i + 1].op = "FindClosest"
    /\ log[i + 1].arg = log[i].arg[1]
    /\ log[i + 1].fault = "none"
    /\ Has(log[i + 1].ms0, log[i].arg[2])

\* The step after the i-th returned the manga of the bound id and made no
\* search and no request.
AnsweredFromBinding(i) ==
    /\ log[i + 1].err = "nil" /\ log[i + 1].ok
    /\ log[i + 1].out[1].ID = log[i].arg[2]
    /\ log[i + 1].srch = 0
    /\ log[i + 1].net = 0

\* C39: after BindTitleWithID(title, id) returns nil for an id the id store
\* holds, FindClosestManga(title) returns the manga of that id without a
\* search, for every title, whatever its case and surrounding whitespace.
C39_BoundTitleIsFound ==
    \A i \in 1..Len(log) : BoundThenAsked(i) => AnsweredFromBinding(i)

\* The same for the titles unifyString leaves as they are, the only ones
\* whose binding FindClosestManga looks up under the key it was stored at.
C39_BoundUnifiedTitleIsFound ==
    \A i \in 1..Len(log) :
        (BoundThenAsked(i) /\ unifyString(log[i].arg[1]) = log[i].arg[1])
            => AnsweredFromBinding(i)

\* A title in unified form is bound and then answered from the binding.
C39_WitnessUnified ==
    /\ BoundThenAsked(1)
    /\ unifyString(log[1].arg[1]) = log[1].arg[1]
    /\ AnsweredFromBinding(1)

=============================================================================
